---- MODULE Spec2Model ----
(***************************************************************************)
(* Model of the realtime session client of the live voice translation app  *)
(* (src/src/components/CallInterface.tsx): the event classifier of the     *)
(* signaling data channel, the connect / teardown lifecycle, the call      *)
(* timer, the wait for ICE gathering and the end-call flow; and of the     *)
(* server action that obtains the session credential                       *)
(* (src/convex/realtime.ts).                                               *)
(*                                                                         *)
(* Texts are sequences of characters, so concatenation, join and trim are  *)
(* computed as the code computes them.  A JSON value read from a message   *)
(* is a record [k, s]: k = "str" with the string in s, k = "absent" for a  *)
(* missing field (undefined / null), k = "other" for any non-string value. *)
(***************************************************************************)
EXTENDS Integers, Sequences, FiniteSets, TLC

\* ------------------------------------------------------------------ bounds
\* most characters delivered as deltas between two done events, and the
\* longest partial transcript
MaxRun == 2
\* the environment stops sending once this many entries are finalized
MaxTranscripts == 1
\* runs of the mount effect of one component: the first, and one more when
\* the parent replaces the language props, which it does once, when the
\* user settings have loaded
MaxAttempts == 2
\* most activations of End Call
MaxEndCalls == 2
\* the period of the call timer's interval
IntervalMs == 1000
\* the clock advances in steps of TickMs up to MaxTicks steps
TickMs == IntervalMs \div 2
MaxTicks == 11

\* ------------------------------------------------------------ JSON values
Str(s) == [k |-> "str", s |-> s]
Absent == [k |-> "absent", s |-> <<>>]
Other == [k |-> "other", s |-> <<>>]
TypeStr(s) == [k |-> "str", s |-> s]
NoType == [k |-> "absent", s |-> ""]
OtherType == [k |-> "other", s |-> ""]
\* typeof v === "string"
IsString(v) == v.k = "str"
\* JavaScript truthiness of a value known to be a string or null
Truthy(v) == v.k = "str" /\ v.s # <<>>

\* --------------------------------------------------------- text functions
RECURSIVE JoinSpace(_)
JoinSpace(parts) ==
  IF parts = <<>> THEN <<>>
  ELSE IF Len(parts) = 1 THEN Head(parts)
  ELSE Head(parts) \o <<" ">> \o JoinSpace(Tail(parts))

RECURSIVE TrimStart(_)
TrimStart(s) ==
  IF s # <<>> /\ Head(s) = " " THEN TrimStart(Tail(s)) ELSE s

RECURSIVE TrimEnd(_)
TrimEnd(s) ==
  IF s # <<>> /\ s[Len(s)] = " " THEN TrimEnd(SubSeq(s, 1, Len(s) - 1)) ELSE s

Trim(s) == TrimEnd(TrimStart(s))

\* ------------------------------------------------------------ event types
TextDelta == "response.output_text.delta"
InputDelta == "input_audio_transcript.delta"
AudioTranscriptDelta == "response.output_audio_transcript.delta"
AudioTranscriptDone == "response.output_audio_transcript.done"
AudioDelta == "response.output_audio.delta"
ItemAdded == "conversation.item.added"
ItemDone == "conversation.item.done"
FutureEvent == "some.future.event"

\* ------------------------------------------------- data-channel messages
\* A message is the `data` of one MessageEvent.  data = "object" is a string
\* holding a JSON object whose fields follow; "binary" is a non-string
\* payload, "garbage" a string that is not JSON, "scalar" a JSON value that
\* is not an object (number, string, null).
NoResponse == [isRecord |-> FALSE, id |-> Absent]
Response(id) == [isRecord |-> TRUE, id |-> id]
NoItem == [isRecord |-> FALSE, content |-> <<>>, created_at |-> -1]
Item(content, created) == [isRecord |-> TRUE, content |-> content, created_at |-> created]
Part(type, text) == [isRecord |-> TRUE, type |-> type, text |-> text]
NonRecordPart == [isRecord |-> FALSE, type |-> NoType, text |-> Absent]

BaseMsg ==
  [data |-> "object", type |-> NoType, delta |-> Absent,
   response_id |-> Absent, response |-> NoResponse,
   transcript |-> Absent, text |-> Absent, item |-> NoItem]

IdA == <<"A">>
IdB == <<"B">>

\* the shapes under which a response id is carried (or not)
PlainIdForms ==
  { [response_id |-> Absent, response |-> NoResponse],
    [response_id |-> Str(IdA), response |-> NoResponse],
    [response_id |-> Str(IdB), response |-> Response(Str(IdA))] }
FallbackIdForms ==
  { [response_id |-> Str(<<>>), response |-> Response(Str(IdA))],
    [response_id |-> Other, response |-> Response(Str(IdB))] }
IdForms == PlainIdForms \cup FallbackIdForms

WithId(m, f) == [m EXCEPT !.response_id = f.response_id, !.response = f.response]

NoInline == [transcript |-> Absent, text |-> Absent]
InlineForms ==
  { NoInline,
    [transcript |-> Other, text |-> Absent],
    [transcript |-> Str(<<"b">>), text |-> Absent],
    [transcript |-> Absent, text |-> Str(<<"a">>)],
    [transcript |-> Str(<<>>), text |-> Str(<<"a">>)] }

TextPart == Part(TypeStr("output_text"), Str(<<"a">>))

Items ==
  { NoItem,
    Item(<<>>, -1),
    Item(<< TextPart >>, -1),
    Item(<< TextPart >>, 1),
    Item(<< Part(TypeStr("input_text"), Str(<<"b">>)),
            Part(NoType, Str(<<"a">>)) >>, -1),
    Item(<< Part(TypeStr("text"), Str(<<" ">>)) >>, -1),
    Item(<< Part(TypeStr("audio"), Str(<<"a">>)),
            NonRecordPart,
            Part(TypeStr("output_text"), Other) >>, 1),
    Item(<< NonRecordPart, Part(TypeStr("output_text"), Str(<<>>)) >>, 1) }

\* The text of a delta is never inspected by the handler beyond being a
\* non-empty string, so the n-th delta since the last done event carries
\* the n-th letter: the arrival order shows in every concatenation.
Letters == << "a", "b", "c", "d", "e" >>
DeltaTexts == { Str(<<Letters[i]>>) : i \in 1..Len(Letters) }

TextDeltaMsgs(texts) ==
  { [BaseMsg EXCEPT !.type = TypeStr(TextDelta), !.delta = d] :
      d \in { Other, Str(<<>>) } \cup texts } \cup
  { [BaseMsg EXCEPT !.type = TypeStr(InputDelta), !.delta = d] :
      d \in { Absent } \cup texts }

AudioTranscriptDeltaMsgs(texts) ==
  { WithId([BaseMsg EXCEPT !.type = TypeStr(AudioTranscriptDelta), !.delta = d], f) :
      d \in texts, f \in IdForms } \cup
  { WithId([BaseMsg EXCEPT !.type = TypeStr(AudioTranscriptDelta), !.delta = d], f) :
      d \in { Other, Str(<<>>) }, f \in {[response_id |-> Str(IdB), response |-> NoResponse]} }

AudioTranscriptDoneMsgs ==
  { WithId([BaseMsg EXCEPT !.type = TypeStr(AudioTranscriptDone),
                           !.transcript = i.transcript, !.text = i.text], f) :
      i \in InlineForms, f \in PlainIdForms } \cup
  { WithId([BaseMsg EXCEPT !.type = TypeStr(AudioTranscriptDone)], f) :
      f \in FallbackIdForms }

ItemMsgs ==
  { [BaseMsg EXCEPT !.type = TypeStr(ItemDone), !.item = it] : it \in Items } \cup
  { [BaseMsg EXCEPT !.type = TypeStr(ItemAdded), !.item = it] :
      it \in { NoItem, Item(<<>>, 1), Item(<< TextPart >>, -1),
               Item(<< Part(TypeStr("text"), Str(<<" ">>)), NonRecordPart >>, -1) } }

\* well-formed messages whose type the handler does not act on, bare or
\* carrying every field the recognised events use
Loaded(m) ==
  [m EXCEPT !.item = Item(<< TextPart >>, 1), !.delta = Str(<<"b">>),
            !.transcript = Str(<<"b">>), !.response_id = Str(IdB)]

UnknownMsgs ==
  { [BaseMsg EXCEPT !.type = TypeStr(FutureEvent)],
    Loaded([BaseMsg EXCEPT !.type = TypeStr(FutureEvent)]),
    Loaded([BaseMsg EXCEPT !.type = TypeStr(AudioDelta)]) }

\* payloads parseRealtimeMessage / the typeof guard reject
MalformedMsgs ==
  { [BaseMsg EXCEPT !.data = k] : k \in {"binary", "garbage", "scalar"} } \cup
  { [BaseMsg EXCEPT !.type = OtherType], Loaded([BaseMsg EXCEPT !.type = NoType]) }

DoneMsgs ==
  AudioTranscriptDoneMsgs \cup { m \in ItemMsgs : m.type.s = ItemDone }

\* the messages that carry the given delta texts, and those that carry none
MessagesWith(texts) ==
  TextDeltaMsgs(texts) \cup AudioTranscriptDeltaMsgs(texts)
    \cup AudioTranscriptDoneMsgs \cup ItemMsgs \cup UnknownMsgs \cup MalformedMsgs

\* The messages the environment delivers.  Messages that differ only in a
\* field the handler reads to the same effect (the shape that carries the
\* response id of a delta, the response id of a done event, the reason a
\* payload is rejected, the type of an ignored event) are delivered in one
\* form; MessagesWith holds every form.
DeliveredWith(texts) ==
  { [BaseMsg EXCEPT !.type = TypeStr(t), !.delta = d] :
      t \in {TextDelta, InputDelta}, d \in texts } \cup
  { [BaseMsg EXCEPT !.type = TypeStr(TextDelta), !.delta = Other] } \cup
  { WithId([BaseMsg EXCEPT !.type = TypeStr(AudioTranscriptDelta), !.delta = d], f) :
      d \in texts, f \in PlainIdForms } \cup
  { [BaseMsg EXCEPT !.type = TypeStr(AudioTranscriptDone),
                    !.transcript = i.transcript, !.text = i.text] :
      i \in InlineForms } \cup
  ItemMsgs \cup
  { Loaded([BaseMsg EXCEPT !.type = TypeStr(FutureEvent)]),
    [BaseMsg EXCEPT !.data = "garbage"] }

Messages == MessagesWith(DeltaTexts)
WellFormedMsgs == Messages \ MalformedMsgs

\* ---------------------------------------------------- parseRealtimeMessage
\* JSON.parse throws on "garbage"; isRecord rejects a "scalar"; an object
\* needs a string `type`.  The result is null (ok = FALSE) or the payload.
parseRealtimeMessage(data) ==
  IF data.data = "garbage" THEN [ok |-> FALSE, payload |-> BaseMsg]
  ELSE IF data.data # "object" THEN [ok |-> FALSE, payload |-> BaseMsg]
  ELSE IF ~IsString(data.type) THEN [ok |-> FALSE, payload |-> BaseMsg]
  ELSE [ok |-> TRUE, payload |-> data]

\* the response id of an audio-transcript event: payload.response_id when it
\* is a non-empty string, else payload.response.id when that is a string,
\* else null
ResponseIdOf(payload) ==
  IF Truthy(payload.response_id) THEN payload.response_id
  ELSE IF payload.response.isRecord /\ IsString(payload.response.id)
       THEN payload.response.id
  ELSE Absent

\* one element of item.content mapped to its text, or dropped
PartKept(part) ==
  /\ part.isRecord
  /\ Truthy(part.text)
  /\ \/ ~IsString(part.type)
     \/ part.type.s \in {"input_text", "output_text", "output_audio_transcript",
                         "input_audio_transcript", "text"}
     \/ part.type.s = ""

RECURSIVE KeptTexts(_)
KeptTexts(content) ==
  IF content = <<>> THEN <<>>
  ELSE IF PartKept(Head(content))
       THEN <<Head(content).text.s>> \o KeptTexts(Tail(content))
       ELSE KeptTexts(Tail(content))

ItemText(item) == Trim(JoinSpace(KeptTexts(item.content)))

\* ----------------------------------------------------------- classifier
NoPartial == [present |-> FALSE, text |-> <<>>, timestamp |-> 0]
Partial(text, ts) == [present |-> TRUE, text |-> text, timestamp |-> ts]
Entry(text, ts) == [originalText |-> text, timestamp |-> ts]

\* Finalize putting the new entry in front of the list
Finalize_Prepends(st, text, ts) ==
  [st EXCEPT !.partialTranscript = NoPartial,
             !.transcripts = << Entry(text, ts) >> \o @,
             !.addTranscriptCalls = Append(@, Entry(text, ts))]

\* setTranscripts + addTranscript of one finalized entry, partial cleared
Finalize(st, text, ts) ==
  [st EXCEPT !.partialTranscript = NoPartial,
             !.transcripts = Append(@, Entry(text, ts)),
             !.addTranscriptCalls = Append(@, Entry(text, ts))]

TextDeltaEvent(st, payload, nowMs) ==
  LET deltaText == IF IsString(payload.delta) THEN payload.delta.s ELSE <<>>
  IN IF deltaText = <<>> THEN st
     ELSE IF ~st.partialTranscript.present
          THEN [st EXCEPT !.partialTranscript = Partial(deltaText, nowMs)]
          ELSE [st EXCEPT !.partialTranscript.text = @ \o deltaText]

\* the audio-transcript delta handler putting the new delta in front
AudioTranscriptDeltaEvent_Prepends(st, payload, nowMs) ==
  LET deltaText == IF IsString(payload.delta) THEN payload.delta.s ELSE <<>>
      responseId == ResponseIdOf(payload)
      changed == Truthy(responseId) /\ responseId # st.outputTranscriptResponseIdRef
      idRef == IF changed THEN responseId ELSE st.outputTranscriptResponseIdRef
      buffer == deltaText \o (IF changed THEN <<>> ELSE st.outputTranscriptRef)
  IN IF deltaText = <<>> THEN st
     ELSE [st EXCEPT !.outputTranscriptResponseIdRef = idRef,
                     !.outputTranscriptRef = buffer,
                     !.partialTranscript = Partial(buffer, nowMs)]

\* the audio-transcript delta handler keeping the buffer when the response
\* id changes
AudioTranscriptDeltaEvent_KeepsBuffer(st, payload, nowMs) ==
  LET deltaText == IF IsString(payload.delta) THEN payload.delta.s ELSE <<>>
      responseId == ResponseIdOf(payload)
      changed == Truthy(responseId) /\ responseId # st.outputTranscriptResponseIdRef
      idRef == IF changed THEN responseId ELSE st.outputTranscriptResponseIdRef
      buffer == st.outputTranscriptRef \o deltaText
  IN IF deltaText = <<>> THEN st
     ELSE [st EXCEPT !.outputTranscriptResponseIdRef = idRef,
                     !.outputTranscriptRef = buffer,
                     !.partialTranscript = Partial(buffer, nowMs)]

AudioTranscriptDeltaEvent(st, payload, nowMs) ==
  LET deltaText == IF IsString(payload.delta) THEN payload.delta.s ELSE <<>>
      responseId == ResponseIdOf(payload)
      changed == Truthy(responseId) /\ responseId # st.outputTranscriptResponseIdRef
      idRef == IF changed THEN responseId ELSE st.outputTranscriptResponseIdRef
      buffer == (IF changed THEN <<>> ELSE st.outputTranscriptRef) \o deltaText
  IN IF deltaText = <<>> THEN st
     ELSE [st EXCEPT !.outputTranscriptResponseIdRef = idRef,
                     !.outputTranscriptRef = buffer,
                     !.partialTranscript = Partial(buffer, nowMs)]

\* the audio-transcript done handler without the test for an empty text
AudioTranscriptDoneEvent_NoEmptyCheck(st, payload, nowMs) ==
  LET finalText ==
        IF IsString(payload.transcript) THEN payload.transcript.s
        ELSE IF IsString(payload.text) THEN payload.text.s
        ELSE st.outputTranscriptRef
      reset == [st EXCEPT !.outputTranscriptRef = <<>>,
                          !.outputTranscriptResponseIdRef = Absent]
  IN Finalize(reset, finalText, nowMs)

\* the audio-transcript done handler preferring the inline text to the
\* inline transcript
AudioTranscriptDoneEvent_TextFirst(st, payload, nowMs) ==
  LET finalText ==
        IF IsString(payload.text) THEN payload.text.s
        ELSE IF IsString(payload.transcript) THEN payload.transcript.s
        ELSE st.outputTranscriptRef
      reset == [st EXCEPT !.outputTranscriptRef = <<>>,
                          !.outputTranscriptResponseIdRef = Absent]
  IN IF finalText = <<>> THEN reset
     ELSE Finalize(reset, finalText, nowMs)

\* The id of a done event that differs from the accumulating one is stored
\* in outputTranscriptResponseIdRef and cleared again before the handler
\* does anything else, so only the reset of the ref shows.
AudioTranscriptDoneEvent(st, payload, nowMs) ==
  LET finalText ==
        IF IsString(payload.transcript) THEN payload.transcript.s
        ELSE IF IsString(payload.text) THEN payload.text.s
        ELSE st.outputTranscriptRef
      reset == [st EXCEPT !.outputTranscriptRef = <<>>,
                          !.outputTranscriptResponseIdRef = Absent]
  IN IF finalText = <<>> THEN reset
     ELSE Finalize(reset, finalText, nowMs)

\* the item handler finalizing the item of any event that is not an
\* item-added event
ItemEvent_AnyTypeFinalizes(st, payload, nowMs) ==
  LET item == payload.item
      text == ItemText(item)
      eventTimestamp == IF item.created_at >= 0 THEN item.created_at * 1000
                        ELSE nowMs
  IN IF ~item.isRecord THEN st
     ELSE IF payload.type.s = ItemAdded
          THEN IF text = <<>> THEN st
               ELSE [st EXCEPT !.partialTranscript = Partial(text, nowMs)]
     ELSE IF text = <<>> THEN st
     ELSE Finalize(st, text, eventTimestamp)

ItemEvent(st, payload, nowMs) ==
  LET item == payload.item
      text == ItemText(item)
      eventTimestamp == IF item.created_at >= 0 THEN item.created_at * 1000
                        ELSE nowMs
  IN IF ~item.isRecord THEN st
     ELSE IF payload.type.s = ItemAdded
          THEN IF text = <<>> THEN st
               ELSE [st EXCEPT !.partialTranscript = Partial(text, nowMs)]
     ELSE IF payload.type.s # ItemDone THEN st
     ELSE IF text = <<>> THEN st
     ELSE Finalize(st, text, eventTimestamp)

\* dataChannel.onmessage dropping what it accumulated when a message does
\* not parse
OnMessageResult_ResetOnBad(st, data, nowMs) ==
  LET parsed == parseRealtimeMessage(data)
      payload == parsed.payload
      dropped == [st EXCEPT !.partialTranscript = NoPartial,
                            !.outputTranscriptRef = <<>>,
                            !.outputTranscriptResponseIdRef = Absent]
  IN IF data.data = "binary" THEN st
     ELSE IF ~parsed.ok THEN dropped
     ELSE IF payload.type.s \in {TextDelta, InputDelta}
          THEN TextDeltaEvent(st, payload, nowMs)
     ELSE IF payload.type.s = AudioTranscriptDelta
          THEN AudioTranscriptDeltaEvent(st, payload, nowMs)
     ELSE IF payload.type.s = AudioTranscriptDone
          THEN AudioTranscriptDoneEvent(st, payload, nowMs)
     ELSE IF payload.type.s = AudioDelta THEN st
     ELSE ItemEvent(st, payload, nowMs)

\* dataChannel.onmessage: the classifier state after one message
OnMessageResult(st, data, nowMs) ==
  LET parsed == parseRealtimeMessage(data)
      payload == parsed.payload
  IN IF data.data = "binary" THEN st
     ELSE IF ~parsed.ok THEN st
     ELSE IF payload.type.s \in {TextDelta, InputDelta}
          THEN TextDeltaEvent(st, payload, nowMs)
     ELSE IF payload.type.s = AudioTranscriptDelta
          THEN AudioTranscriptDeltaEvent(st, payload, nowMs)
     ELSE IF payload.type.s = AudioTranscriptDone
          THEN AudioTranscriptDoneEvent(st, payload, nowMs)
     ELSE IF payload.type.s = AudioDelta THEN st
     ELSE ItemEvent(st, payload, nowMs)

\* ------------------------------------------------------------------ state
VARIABLES
  now,                            \* Date.now()
  connectedMs,                    \* time passed while connectionState was connected
  tickDue,                        \* when the interval of the call timer fires next
  mounted,                        \* the CallInterface component is mounted
  connectionState, isMuted, needsAudioResume, callDuration,
  transcripts, partialTranscript,
  startTimeRef, intervalRef, hasStartedTimerRef, isEndingCallRef,
  peerConnectionRef, dataChannelRef, localStreamRef,
  outputTranscriptRef, outputTranscriptResponseIdRef,
  attempts,                       \* runs of startRealtimeSession so far
  stage,                          \* where each run of startRealtimeSession is
  trackLive, trackEnabled,        \* microphone tracks of each attempt's stream
  pcOpen, pcConnectionState,      \* each attempt's RTCPeerConnection
  dcState, closeEvents,           \* each attempt's data channel, queued close events
  sessionUpdates,                 \* session.update messages sent per channel
  flows, endCallPending,          \* endCallFlow: runs started, runs awaiting endCall
  endCallCalls, summaryCalls, onEndCallCount, addTranscriptCalls,
  errorToasts,                    \* toast.error messages shown so far
  deltaRun, lastKind,             \* history of the delivered messages
  tornDown,                       \* attempts that were in flight when a teardown ran
  iceGatheringState,              \* peerConnection.iceGatheringState
  iceListener,                    \* onStateChange is registered on the connection
  iceTimeoutId,                   \* when the timer of the wait fires, NoTimer if none
  iceWait,                        \* the promise of waitForIceGatheringComplete
  iceResolves,                    \* calls of its resolve function
  offersPosted,                   \* signaling POSTs sent
  credentialCall,                 \* a call of createRealtimeSession and its environment
  createResult,                   \* what that call returned or threw
  callsTable, transcriptsTable,   \* the documents of the backend's tables
  serverNow,                      \* Date.now() on the server
  lastOp,                         \* the last call of a backend function, its outcome
  writeOutcomes,                  \* how the addTranscript calls issued so far settled
  playPending,                    \* calls of remoteAudio.play() that have not settled
  lastPlay,                       \* the call of play() that settled last
  candidateErrors                 \* "ICE candidate error" lines on the console

classifierVars ==
  << transcripts, partialTranscript, outputTranscriptRef,
     outputTranscriptResponseIdRef, addTranscriptCalls >>
historyVars == << deltaRun, lastKind >>
sessionVars ==
  << mounted, connectionState, isMuted, needsAudioResume, callDuration,
     startTimeRef, intervalRef, tickDue, hasStartedTimerRef, isEndingCallRef,
     peerConnectionRef, dataChannelRef, localStreamRef,
     trackLive, trackEnabled, pcOpen, dcState, closeEvents, errorToasts >>
connectVars == << attempts, stage, pcConnectionState, sessionUpdates >>
endVars == << flows, endCallPending, endCallCalls, summaryCalls, onEndCallCount >>
clockVars == << now, connectedMs >>
iceVars ==
  << iceGatheringState, iceListener, iceTimeoutId, iceWait, iceResolves,
     offersPosted >>
negotiatorVars == << credentialCall, createResult >>
backendVars == << callsTable, transcriptsTable, serverNow, lastOp >>
mediaVars == << playPending, lastPlay, candidateErrors >>
envVars ==
  << clockVars, iceVars, negotiatorVars, backendVars, writeOutcomes, mediaVars >>
vars ==
  << envVars, classifierVars, historyVars, tornDown, sessionVars, connectVars,
     endVars >>
clientVars ==
  << clockVars, iceVars, negotiatorVars, writeOutcomes, mediaVars, classifierVars,
     historyVars, tornDown, sessionVars, connectVars, endVars >>

\* ------------------------------------- createRealtimeSession (convex action)
\* JSON values of the credential response: a string (a text), a number (its
\* digits), an object with the fields the handler reads, or null / undefined
Num(d) == [k |-> "num", s |-> d]
Leaf(v) == [k |-> v.k, s |-> v.s, value |-> Absent, expires_at |-> Absent,
            expiresAt |-> Absent]
SecretObject(value, expires_at, expiresAt) ==
  [k |-> "obj", s |-> <<>>, value |-> value, expires_at |-> expires_at,
   expiresAt |-> expiresAt]

\* value[key] of a record, undefined of anything else
getNestedValue(value, key) ==
  IF value.k = "obj" /\ key \in DOMAIN value THEN value[key] ELSE Absent

\* getString keeping whatever value it is given
getString_KeepsAny(value) == [k |-> value.k, s |-> value.s]

getString(value) == IF value.k = "str" THEN Str(value.s) ELSE Absent
getNumber(value) == IF value.k = "num" THEN Num(value.s) ELSE Absent

\* JavaScript truthiness of a string, a number, an object or null
JsTruthy(v) ==
  /\ v.k # "absent"
  /\ ~(v.k = "str" /\ v.s = <<>>)
  /\ ~(v.k = "num" /\ v.s = <<"0">>)

\* a ?? b
Coalesce(a, b) == IF a.k = "absent" THEN b ELSE a

DEFAULT_VOICE == "marin"

buildInterpreterPrompt(primaryLanguage, secondaryLanguage) ==
  [template |-> "live interpreter", primaryLanguage |-> primaryLanguage,
   secondaryLanguage |-> secondaryLanguage]

SessionConfig(args) ==
  [type |-> "realtime", model |-> "gpt-realtime",
   instructions |-> buildInterpreterPrompt(args.primaryLanguage, args.secondaryLanguage),
   audio |-> [output |->
     [voice |-> IF args.voice = "undefined" THEN DEFAULT_VOICE ELSE args.voice]]]

Pending == [outcome |-> "pending"]
Thrown(message, status, body) ==
  [outcome |-> "thrown", message |-> message, status |-> status, body |-> body]
Returned(clientSecret, expiresAt, session) ==
  [outcome |-> "returned", clientSecret |-> clientSecret, expiresAt |-> expiresAt,
   session |-> session]

\* response.ok
ResponseOk(response) == response.status \in 200..299

ClientSecretOf(data) ==
  Coalesce(getString(getNestedValue(getNestedValue(data, "client_secret"), "value")),
  Coalesce(getString(getNestedValue(data, "value")),
           getString(getNestedValue(data, "client_secret"))))

ExpiresAtOf(data) ==
  Coalesce(getNumber(getNestedValue(getNestedValue(data, "client_secret"), "expires_at")),
  Coalesce(getNumber(getNestedValue(data, "expires_at")),
           getNumber(getNestedValue(getNestedValue(data, "client_secret"), "expiresAt"))))

\* the handler, run to its return or its throw; what it POSTs is the
\* session configuration, which it returns with the secret
createRealtimeSession(call) ==
  IF ~call.identity THEN Thrown("Not authenticated", 0, Absent)
  ELSE IF ~call.apiKey THEN Thrown("Missing OPENAI_API_KEY", 0, Absent)
  ELSE LET session == SessionConfig(call.args)
           response == call.response
       IN IF response.kind = "rejected" THEN Thrown("fetch failed", 0, Absent)
          ELSE IF ~ResponseOk(response)
               THEN Thrown("Failed to create realtime session", response.status,
                           response.body)
          ELSE IF response.body.k = "garbage"
               THEN Thrown("SyntaxError", 0, Absent)
          ELSE LET clientSecret == ClientSecretOf(response.body)
               IN IF ~JsTruthy(clientSecret)
                  THEN Thrown("Missing client secret in response", 0, response.body)
                  ELSE Returned(clientSecret, ExpiresAtOf(response.body), session)

\* the credential endpoint's bodies: text that is not JSON, a JSON scalar,
\* and objects with every combination of the fields the handler reads
SecretNested == <<"e", "k", "1">>
SecretFlat == <<"e", "k", "2">>
SecretString == <<"e", "k", "3">>
ClientSecretFields ==
  { Leaf(Absent), Leaf(Str(SecretString)), Leaf(Str(<<>>)), Leaf(Num(<<"7">>)) } \cup
  { SecretObject(v, e1, e2) :
      v \in { Absent, Str(SecretNested), Str(<<>>), Num(<<"7">>) },
      e1 \in { Absent, Num(<<"1">>) }, e2 \in { Absent, Num(<<"3">>) } }
Bodies ==
  { [k |-> "garbage", s |-> <<>>, client_secret |-> Leaf(Absent),
     value |-> Absent, expires_at |-> Absent],
    [k |-> "num", s |-> <<"7">>, client_secret |-> Leaf(Absent),
     value |-> Absent, expires_at |-> Absent] } \cup
  { [k |-> "obj", s |-> <<>>, client_secret |-> c, value |-> v, expires_at |-> e] :
      c \in ClientSecretFields,
      v \in { Absent, Str(SecretFlat), Str(<<>>) },
      e \in { Absent, Num(<<"2">>) } }
Responses ==
  { [kind |-> "rejected", status |-> 0, body |-> b] : b \in { Absent } } \cup
  { [kind |-> "response", status |-> st, body |-> b] :
      st \in { 200, 401, 500 }, b \in Bodies }
CredentialCalls ==
  [ identity : BOOLEAN, apiKey : BOOLEAN,
    args : [ primaryLanguage : {"de"}, secondaryLanguage : {"en"},
             voice : {"undefined", "alloy"} ],
    response : Responses ]

\* createRealtimeSession is not being observed
NegotiatorIdle ==
  /\ credentialCall =
       [ identity |-> FALSE, apiKey |-> FALSE,
         args |-> [ primaryLanguage |-> "de", secondaryLanguage |-> "en",
                    voice |-> "undefined" ],
         response |-> [kind |-> "rejected", status |-> 0, body |-> Absent] ]
  /\ createResult = Pending

\* the action runs on the server for the call it was given
CreateRealtimeSession ==
  /\ createResult = Pending
  /\ createResult' = createRealtimeSession(credentialCall)
  /\ UNCHANGED << clockVars, iceVars, backendVars, writeOutcomes, mediaVars,
                  credentialCall, classifierVars,
                  historyVars, tornDown, sessionVars, connectVars, endVars >>

\* --------------------------------------- calls and transcripts (convex/)
\* The tables of the backend and the public functions over them.  A call
\* id is the position of the call in its table; MaxCalls ids exist, the
\* ones not inserted yet make ctx.db.get return null.
MaxCalls == 1
MaxStored == 2
MaxServerNow == 2

Users == { "u1", "u2" }
NoUser == "null"                 \* getAuthUserId of an unauthenticated caller
Callers == Users \cup { NoUser }
CallIds == 1..MaxCalls
Durations == { 0, 1 }
NoTime == -1                     \* an optional field that was never written

\* the arguments a client passes to addTranscript: the names of the fields
\* it sends, the text and, where sent, the client's timestamp
NoArgs == [fields |-> {}, originalText |-> <<>>, timestamp |-> NoTime]
LiveWriteFields == { "callId", "originalText", "timestamp" }
RequiredFields ==
  { "callId", "speaker", "originalText", "originalLanguage", "translatedText",
    "translatedLanguage" }
ClientTimes == { 2 }
\* a done event that carries a creation time and one that carries none
WriteEvents ==
  { [BaseMsg EXCEPT !.type = TypeStr(ItemDone), !.item = Item(<< TextPart >>, 1)],
    [BaseMsg EXCEPT !.type = TypeStr(AudioTranscriptDone),
                    !.transcript = Str(<<"b">>)] }
\* the writes dataChannel.onmessage issues for one finalized entry
LiveWrites ==
  UNION { { [fields |-> LiveWriteFields, originalText |-> w.originalText,
             timestamp |-> w.timestamp] :
            w \in { r.addTranscriptCalls[i] : i \in 1..Len(r.addTranscriptCalls) } } :
          r \in { OnMessageResult(
                    [ transcripts |-> <<>>, partialTranscript |-> NoPartial,
                      outputTranscriptRef |-> <<>>,
                      outputTranscriptResponseIdRef |-> Absent,
                      addTranscriptCalls |-> <<>> ], m, t) :
                  m \in WriteEvents, t \in ClientTimes } }
\* the same writes with the fields the validator of addTranscript names
FullWrites == { [w EXCEPT !.fields = RequiredFields] : w \in LiveWrites }
TranscriptArgs == LiveWrites \cup FullWrites

Op(op, caller, callId, args, outcome, val, sent) ==
  [ op |-> op, caller |-> caller, callId |-> callId, args |-> args,
    outcome |-> outcome, val |-> val, sent |-> sent ]

MaxCandidateErrors == 2

\* nothing is being played and nothing was logged
NoPlay == [kind |-> "none", pc |-> 0, outcome |-> "none"]
MediaIdle ==
  /\ playPending = {}
  /\ lastPlay = NoPlay
  /\ candidateErrors = 0

\* no backend function has been called
BackendIdle ==
  /\ callsTable = <<>>
  /\ transcriptsTable = <<>>
  /\ serverNow = 0
  /\ lastOp = Op("none", NoUser, 0, NoArgs, "none", <<>>, <<>>)

Exists(callId) == callId \in 1..Len(callsTable)

\* the function throws: the mutation or query leaves the tables as they were
Throws(op, caller, callId, args) ==
  /\ lastOp' = Op(op, caller, callId, args, "thrown", <<>>, <<>>)
  /\ UNCHANGED << callsTable, transcriptsTable, serverNow >>

\* the function returns val without writing
Returns(op, caller, callId, outcome, val, sent) ==
  /\ lastOp' = Op(op, caller, callId, NoArgs, outcome, val, sent)
  /\ UNCHANGED << callsTable, transcriptsTable, serverNow >>

\* .withIndex("by_call_and_timestamp", q => q.eq("callId", id)).order("asc"):
\* documents are inserted with the server's clock, which never runs
\* backwards, so the order of the index is the order of insertion
getTranscriptsForSummary(callId) ==
  SelectSeq(transcriptsTable, LAMBDA doc : doc.callId = callId)

\* transcripts.map(t => t.originalText).join("\n")
RECURSIVE JoinLines(_)
JoinLines(docs) ==
  IF docs = <<>> THEN <<>>
  ELSE IF Len(docs) = 1 THEN Head(docs).originalText
       ELSE Head(docs).originalText \o << "\n" >> \o JoinLines(Tail(docs))

StartCall ==
  \E caller \in Callers, t \in serverNow..MaxServerNow :
    /\ Len(callsTable) < MaxCalls
    /\ IF caller = NoUser
         THEN Throws("startCall", caller, 0, NoArgs)
         ELSE /\ callsTable' =
                   Append(callsTable,
                          [ userId |-> caller, duration |-> 0, status |-> "active",
                            startedAt |-> t, endedAt |-> NoTime, summary |-> Absent ])
              /\ serverNow' = t
              /\ lastOp' = Op("startCall", caller, Len(callsTable) + 1, NoArgs,
                              "id", <<>>, <<>>)
              /\ UNCHANGED transcriptsTable
    /\ UNCHANGED clientVars

EndCall ==
  \E caller \in Callers, callId \in CallIds, duration \in Durations,
     t \in serverNow..MaxServerNow :
    /\ IF caller = NoUser
         THEN Throws("endCall", caller, callId, NoArgs)
         ELSE IF ~Exists(callId) \/ callsTable[callId].userId # caller
         THEN Throws("endCall", caller, callId, NoArgs)
         ELSE /\ callsTable' =
                   [ callsTable EXCEPT ![callId] =
                       [ @ EXCEPT !.status = "completed", !.duration = duration,
                                  !.endedAt = t ] ]
              /\ serverNow' = t
              /\ lastOp' = Op("endCall", caller, callId, NoArgs, "id", <<>>, <<>>)
              /\ UNCHANGED transcriptsTable
    /\ UNCHANGED clientVars

\* runMutation(internal.calls.updateCallSummary, args): it throws when the
\* fields sent are not the ones its validator names
updateCallSummary(fields, callId, summary) ==
  IF fields # { "callId", "summary", "keyPoints", "actionItems", "title" }
  THEN [ thrown |-> TRUE, calls |-> callsTable ]
  ELSE [ thrown |-> FALSE,
         calls |-> [ callsTable EXCEPT ![callId] = [ @ EXCEPT !.summary = Str(summary) ] ] ]

GetCall ==
  \E caller \in Callers, callId \in CallIds :
    /\ IF caller = NoUser
         THEN Throws("getCall", caller, callId, NoArgs)
         ELSE IF ~Exists(callId) \/ callsTable[callId].userId # caller
         THEN Returns("getCall", caller, callId, "null", <<>>, <<>>)
         ELSE Returns("getCall", caller, callId, "call", << callsTable[callId] >>, <<>>)
    /\ UNCHANGED clientVars

AddTranscript ==
  \E caller \in Callers, callId \in CallIds, args \in TranscriptArgs,
     t \in serverNow..MaxServerNow :
    /\ Len(transcriptsTable) < MaxStored
    /\ IF ~(RequiredFields \subseteq args.fields
            /\ args.fields \subseteq RequiredFields \cup { "confidence" })
         THEN Throws("addTranscript", caller, callId, args)
         ELSE IF caller = NoUser
         THEN Throws("addTranscript", caller, callId, args)
         ELSE IF ~Exists(callId) \/ callsTable[callId].userId # caller
         THEN Throws("addTranscript", caller, callId, args)
         ELSE /\ transcriptsTable' =
                   Append(transcriptsTable,
                          [ callId |-> callId, userId |-> caller, timestamp |-> t,
                            originalText |-> args.originalText ])
              /\ serverNow' = t
              /\ lastOp' = Op("addTranscript", caller, callId, args, "id", <<>>, <<>>)
              /\ UNCHANGED callsTable
    /\ UNCHANGED clientVars

GetTranscripts ==
  \E caller \in Callers, callId \in CallIds :
    /\ IF caller = NoUser
         THEN Throws("getTranscripts", caller, callId, NoArgs)
         ELSE IF ~Exists(callId) \/ callsTable[callId].userId # caller
         THEN Returns("getTranscripts", caller, callId, "list", <<>>, <<>>)
         ELSE Returns("getTranscripts", caller, callId, "list",
                      getTranscriptsForSummary(callId), <<>>)
    /\ UNCHANGED clientVars

SearchTranscripts ==
  \E caller \in Callers, callId \in CallIds, searchTerm \in { <<"a">>, <<"b">> } :
    /\ IF caller = NoUser
         THEN Throws("searchTranscripts", caller, callId, NoArgs)
         ELSE IF ~Exists(callId) \/ callsTable[callId].userId # caller
         THEN Returns("searchTranscripts", caller, callId, "list", <<>>, <<>>)
         ELSE Returns("searchTranscripts", caller, callId, "list",
                      SelectSeq(getTranscriptsForSummary(callId),
                                LAMBDA doc :
                                  \E i \in 1..(Len(doc.originalText) - Len(searchTerm) + 1) :
                                    SubSeq(doc.originalText, i,
                                           i + Len(searchTerm) - 1) = searchTerm),
                      <<>>)
    /\ UNCHANGED clientVars

\* the summarizer answers with a summary of the text it was sent, or with
\* something parseSummaryResult rejects
GenerateCallSummary ==
  \E caller \in Callers, callId \in CallIds, parsed \in BOOLEAN :
    /\ LET conversationText == JoinLines(getTranscriptsForSummary(callId))
           written == updateCallSummary({ "callId", "title", "summary", "keyPoints" },
                                        callId, conversationText)
       IN IF getTranscriptsForSummary(callId) = <<>>
            THEN Returns("generateCallSummary", caller, callId, "null", <<>>, <<>>)
            ELSE IF ~parsed \/ written.thrown
            THEN Returns("generateCallSummary", caller, callId, "null", <<>>,
                         conversationText)
            ELSE /\ callsTable' = written.calls
                 /\ lastOp' = Op("generateCallSummary", caller, callId, NoArgs,
                                 "summary", << conversationText >>, conversationText)
                 /\ UNCHANGED << transcriptsTable, serverNow >>
    /\ UNCHANGED clientVars

\* no timer is armed
NoTimer == -1

\* no wait for ICE gathering was started
IceIdle ==
  /\ iceGatheringState = "new"
  /\ iceListener = FALSE
  /\ iceTimeoutId = NoTimer
  /\ iceWait = "none"
  /\ iceResolves = 0
  /\ offersPosted = 0

Attempts == 1..MaxAttempts
\* a ref holding null
NoRef == 0

RunKeys ==
  { <<TextDelta, <<>> >>, <<InputDelta, <<>> >>,
    <<AudioTranscriptDelta, <<>> >>, <<AudioTranscriptDelta, IdA>>,
    <<AudioTranscriptDelta, IdB>> }

\* the component as constructed: no attempt has started
Unstarted ==
  /\ mounted = TRUE
  /\ connectionState = "idle"
  /\ isMuted = FALSE
  /\ needsAudioResume = FALSE
  /\ callDuration = 0
  /\ transcripts = <<>>
  /\ partialTranscript = NoPartial
  /\ startTimeRef = 0
  /\ intervalRef = FALSE
  /\ tickDue = 0
  /\ hasStartedTimerRef = FALSE
  /\ isEndingCallRef = FALSE
  /\ peerConnectionRef = NoRef
  /\ dataChannelRef = NoRef
  /\ localStreamRef = NoRef
  /\ outputTranscriptRef = <<>>
  /\ outputTranscriptResponseIdRef = Absent
  /\ attempts = 0
  /\ stage = [a \in Attempts |-> "none"]
  /\ trackLive = {}
  /\ trackEnabled = [a \in Attempts |-> TRUE]
  /\ pcOpen = {}
  /\ pcConnectionState = [a \in Attempts |-> "new"]
  /\ dcState = [a \in Attempts |-> "none"]
  /\ closeEvents = {}
  /\ sessionUpdates = [a \in Attempts |-> 0]
  /\ flows = 0
  /\ endCallPending = 0
  /\ endCallCalls = <<>>
  /\ summaryCalls = 0
  /\ onEndCallCount = 0
  /\ addTranscriptCalls = <<>>
  /\ errorToasts = {}
  /\ deltaRun = [k \in RunKeys |-> <<>>]
  /\ lastKind = "none"
  /\ tornDown = {}

Init ==
  /\ now = 0
  /\ connectedMs = 0
  /\ IceIdle
  /\ NegotiatorIdle
  /\ BackendIdle
  /\ writeOutcomes = <<>>
  /\ MediaIdle
  /\ Unstarted

\* ------------------------------------------------- component session state
\* The state and refs the handlers of CallInterface read and write, as one
\* record, so that a handler is a function from record to record.
Session ==
  [ mounted |-> mounted, connectionState |-> connectionState,
    isMuted |-> isMuted, needsAudioResume |-> needsAudioResume,
    callDuration |-> callDuration, startTimeRef |-> startTimeRef,
    intervalRef |-> intervalRef, tickDue |-> tickDue,
    hasStartedTimerRef |-> hasStartedTimerRef,
    isEndingCallRef |-> isEndingCallRef,
    peerConnectionRef |-> peerConnectionRef, dataChannelRef |-> dataChannelRef,
    localStreamRef |-> localStreamRef,
    trackLive |-> trackLive, trackEnabled |-> trackEnabled, pcOpen |-> pcOpen,
    dcState |-> dcState, closeEvents |-> closeEvents,
    errorToasts |-> errorToasts ]

\* a React state setter: ignored once the component is unmounted
setConnectionState(s, v) ==
  IF s.mounted THEN [s EXCEPT !.connectionState = v] ELSE s
setIsMuted(s, v) == IF s.mounted THEN [s EXCEPT !.isMuted = v] ELSE s
setNeedsAudioResume(s, v) ==
  IF s.mounted THEN [s EXCEPT !.needsAudioResume = v] ELSE s
toastError(s, msg) == [s EXCEPT !.errorToasts = @ \cup {msg}]

\* RTCDataChannel.close(): a channel that is connecting or open becomes
\* closed and its close event is queued
CloseDataChannel(s, a) ==
  IF a # NoRef /\ s.dcState[a] \in {"connecting", "open"}
  THEN [s EXCEPT !.dcState[a] = "closed", !.closeEvents = @ \cup {a}]
  ELSE s

\* stopRealtimeSession without the release of the local stream
stopRealtimeSession_KeepsStream(s) ==
  LET s1 == [s EXCEPT !.isEndingCallRef = TRUE]
      s2 == [CloseDataChannel(s1, s1.dataChannelRef) EXCEPT !.dataChannelRef = NoRef]
      s3 == IF s2.peerConnectionRef # NoRef
            THEN [s2 EXCEPT !.pcOpen = @ \ {s2.peerConnectionRef},
                            !.peerConnectionRef = NoRef]
            ELSE s2
      s5 == setIsMuted(setConnectionState(s3, "idle"), FALSE)
      s6 == [s5 EXCEPT !.isEndingCallRef = FALSE]
      s7 == setNeedsAudioResume(s6, FALSE)
  IN [s7 EXCEPT !.hasStartedTimerRef = FALSE, !.intervalRef = FALSE,
                !.tickDue = 0]

stopRealtimeSession(s) ==
  LET s1 == [s EXCEPT !.isEndingCallRef = TRUE]
      s2 == [CloseDataChannel(s1, s1.dataChannelRef) EXCEPT !.dataChannelRef = NoRef]
      s3 == IF s2.peerConnectionRef # NoRef
            THEN [s2 EXCEPT !.pcOpen = @ \ {s2.peerConnectionRef},
                            !.peerConnectionRef = NoRef]
            ELSE s2
      s4 == IF s3.localStreamRef # NoRef
            THEN [s3 EXCEPT !.trackLive = @ \ {s3.localStreamRef},
                            !.localStreamRef = NoRef]
            ELSE s3
      s5 == setIsMuted(setConnectionState(s4, "idle"), FALSE)
      s6 == [s5 EXCEPT !.isEndingCallRef = FALSE]
      s7 == setNeedsAudioResume(s6, FALSE)
  IN [s7 EXCEPT !.hasStartedTimerRef = FALSE, !.intervalRef = FALSE,
                !.tickDue = 0]

\* The effect keyed on connectionState, run when a handler's state updates
\* are committed: `before` is the connection state of the previous render.
TimerEffect(s, before, nowMs) ==
  IF ~s.mounted \/ s.connectionState = before THEN s
  ELSE IF s.connectionState # "connected"
       THEN [s EXCEPT !.intervalRef = FALSE, !.tickDue = 0]
  ELSE IF ~s.hasStartedTimerRef
       THEN [s EXCEPT !.hasStartedTimerRef = TRUE, !.startTimeRef = nowMs,
                      !.callDuration = 0, !.intervalRef = TRUE,
                      !.tickDue = nowMs + IntervalMs]
  ELSE [s EXCEPT !.intervalRef = TRUE, !.tickDue = nowMs + IntervalMs]

\* the handler's result becomes the next state
Commit(s) ==
  LET r == TimerEffect(s, connectionState, now)
  IN /\ mounted' = r.mounted
     /\ connectionState' = r.connectionState
     /\ isMuted' = r.isMuted
     /\ needsAudioResume' = r.needsAudioResume
     /\ callDuration' = r.callDuration
     /\ startTimeRef' = r.startTimeRef
     /\ intervalRef' = r.intervalRef
     /\ tickDue' = r.tickDue
     /\ hasStartedTimerRef' = r.hasStartedTimerRef
     /\ isEndingCallRef' = r.isEndingCallRef
     /\ peerConnectionRef' = r.peerConnectionRef
     /\ dataChannelRef' = r.dataChannelRef
     /\ localStreamRef' = r.localStreamRef
     /\ trackLive' = r.trackLive
     /\ trackEnabled' = r.trackEnabled
     /\ pcOpen' = r.pcOpen
     /\ dcState' = r.dcState
     /\ closeEvents' = r.closeEvents
     /\ errorToasts' = r.errorToasts

\* ------------------------------------------------------ connect attempts
\* the runs of startRealtimeSession that are suspended at an await
InFlight ==
  { a \in Attempts :
      stage[a] \in {"credential", "microphone", "offer", "ice", "post", "answer"} }

\* startRealtimeSession up to its first await: the credential request is sent
StartAttempt(s, a) ==
  /\ Commit(setConnectionState(s, "connecting"))
  /\ attempts' = a
  /\ stage' = [stage EXCEPT ![a] = "credential"]

\* the mount effect: its first run starts the session; a later run (the
\* callback's dependencies changed) first runs the cleanup of the previous one
MountEffect ==
  /\ mounted
  /\ attempts < MaxAttempts
  /\ IF attempts = 0
     THEN StartAttempt(Session, 1)
     ELSE StartAttempt(stopRealtimeSession(Session), attempts + 1)
  /\ tornDown' = tornDown \cup InFlight
  /\ UNCHANGED << envVars, classifierVars, historyVars, pcConnectionState,
                  sessionUpdates, endVars >>

\* the component unmounts: effect cleanups run
Unmount ==
  /\ mounted
  /\ attempts > 0
  /\ Commit([stopRealtimeSession(Session) EXCEPT !.mounted = FALSE])
  /\ tornDown' = tornDown \cup InFlight
  /\ UNCHANGED << envVars, classifierVars, historyVars, connectVars, endVars >>

\* the catch block of startRealtimeSession; the text of its toast depends
\* on the error and is kept as one
ConnectCatch(s) ==
  toastError(setConnectionState(stopRealtimeSession(s), "error"),
             "Failed to start realtime session")

Fail(a) ==
  /\ Commit(ConnectCatch(Session))
  /\ stage' = [stage EXCEPT ![a] = "failed"]
  /\ UNCHANGED << envVars, classifierVars, historyVars, tornDown, attempts,
                  pcConnectionState, sessionUpdates, endVars >>

Advance(a, next) ==
  /\ stage' = [stage EXCEPT ![a] = next]
  /\ UNCHANGED << envVars, classifierVars, historyVars, tornDown, sessionVars, attempts,
                  pcConnectionState, sessionUpdates, endVars >>

\* createRealtimeSession settles: with a secret getUserMedia is called, a
\* rejection or a missing secret goes to the catch block
CredentialSettled(a, outcome) ==
  /\ stage[a] = "credential"
  /\ IF outcome = "ok" THEN Advance(a, "microphone") ELSE Fail(a)

\* what runs between getUserMedia resolving and the await of createOffer:
\* the stream, the peer connection and the data channel are created and
\* stored in the refs
AcquireMedia(s, a) ==
  [s EXCEPT !.localStreamRef = a,
            !.trackLive = @ \cup {a},
            !.peerConnectionRef = a,
            !.pcOpen = @ \cup {a},
            !.dataChannelRef = a,
            !.dcState[a] = "connecting"]

MicrophoneSettled(a, outcome) ==
  /\ stage[a] = "microphone"
  /\ IF outcome = "ok"
     THEN /\ Commit(AcquireMedia(Session, a))
          /\ stage' = [stage EXCEPT ![a] = "offer"]
          /\ UNCHANGED << envVars, classifierVars, historyVars, tornDown, attempts,
                          pcConnectionState, sessionUpdates, endVars >>
     ELSE Fail(a)

\* createOffer / setLocalDescription settle; both reject on a closed
\* connection
OfferSettled(a, outcome) ==
  /\ stage[a] = "offer"
  /\ IF outcome = "ok" /\ a \in pcOpen THEN Advance(a, "ice") ELSE Fail(a)

\* waitForIceGatheringComplete resolves (gathering complete or the timer);
\* without a local SDP the attempt throws, else the offer is POSTed
IceWaitSettled(a, outcome) ==
  /\ stage[a] = "ice"
  /\ IF outcome = "ok" THEN Advance(a, "post") ELSE Fail(a)

\* the signaling POST settles; on response.ok the answer is applied
PostSettled(a, outcome) ==
  /\ stage[a] = "post"
  /\ IF outcome = "ok" THEN Advance(a, "answer") ELSE Fail(a)

\* setRemoteDescription settles; it rejects on a closed connection
AnswerSettled(a, outcome) ==
  /\ stage[a] = "answer"
  /\ IF outcome = "ok" /\ a \in pcOpen THEN Advance(a, "done") ELSE Fail(a)

Outcomes == {"ok", "fail"}

\* ------------------------------------------- peer connection / channel events
\* Events of attempt a's connection reach the handlers registered in that
\* attempt; a closed connection fires none.  The transport starts once the
\* answer is applied.
Negotiated(a) == stage[a] = "done" /\ a \in pcOpen

TransportSteps ==
  { <<"new", "connected">>, <<"new", "failed">>,
    <<"connected", "disconnected">>, <<"connected", "failed">>,
    <<"disconnected", "connected">>, <<"disconnected", "failed">>,
    <<"icefailed", "failed">> }

onconnectionstatechange(s, state) ==
  IF state = "connected" THEN setConnectionState(s, "connected")
  ELSE IF state \in {"failed", "disconnected"}
       THEN toastError(setConnectionState(s, "error"), "Realtime connection lost")
  ELSE s

ConnectionStateChange(a, state) ==
  /\ Negotiated(a)
  /\ <<pcConnectionState[a], state>> \in TransportSteps
  /\ pcConnectionState' = [pcConnectionState EXCEPT ![a] = state]
  /\ Commit(onconnectionstatechange(Session, state))
  /\ UNCHANGED << envVars, classifierVars, historyVars, tornDown, attempts, stage,
                  sessionUpdates, endVars >>

oniceconnectionstatechange(s, state) ==
  IF state = "failed"
  THEN toastError(setConnectionState(s, "error"), "Realtime connection failed")
  ELSE s

\* ICE fails while the transport is being established or after it dropped;
\* the connection's own state follows ("icefailed": its change to failed is
\* still to be reported)
IceConnectionStateChange(a, state) ==
  /\ Negotiated(a)
  /\ pcConnectionState[a] \in {"new", "disconnected"}
  /\ state = "failed"
  /\ pcConnectionState' = [pcConnectionState EXCEPT ![a] = "icefailed"]
  /\ Commit(oniceconnectionstatechange(Session, state))
  /\ UNCHANGED << envVars, classifierVars, historyVars, tornDown, attempts, stage,
                  sessionUpdates, endVars >>

\* an ICE candidate error with the handler taking it for a failure
onicecandidateerror_Fails(s) ==
  toastError(setConnectionState(s, "error"), "Realtime connection failed")

\* peerConnection.onicecandidateerror: console.error and nothing else
onicecandidateerror(s) == s

\* a candidate of attempt a's connection could not be gathered
IceCandidateError(a) ==
  /\ a \in pcOpen
  /\ stage[a] \in {"ice", "post", "answer", "done"}
  /\ candidateErrors < MaxCandidateErrors
  /\ candidateErrors' = candidateErrors + 1
  /\ Commit(onicecandidateerror(Session))
  /\ UNCHANGED << clockVars, iceVars, negotiatorVars, backendVars, writeOutcomes,
                  playPending, lastPlay, classifierVars, historyVars, tornDown,
                  connectVars, endVars >>

\* peerConnection.ontrack / track.onunmute / the effect of reaching
\* connected: the remote stream is attached to the audio element and
\* play() is called; its promise settles later
OnTrack(a) ==
  /\ mounted
  /\ Negotiated(a)
  /\ playPending' = playPending \cup { [kind |-> "auto", pc |-> a] }
  /\ UNCHANGED << clockVars, iceVars, negotiatorVars, backendVars, writeOutcomes,
                  lastPlay, candidateErrors, classifierVars, historyVars, tornDown,
                  sessionVars, connectVars, endVars >>

\* resumeAudioPlayback, the handler of the "Enable Audio" button, which is
\* rendered while needsAudioResume is set
ResumeAudioPlayback ==
  /\ mounted
  /\ needsAudioResume
  /\ playPending' = playPending \cup { [kind |-> "resume", pc |-> peerConnectionRef] }
  /\ UNCHANGED << clockVars, iceVars, negotiatorVars, backendVars, writeOutcomes,
                  lastPlay, candidateErrors, classifierVars, historyVars, tornDown,
                  sessionVars, connectVars, endVars >>

\* a pending play() settles: the automatic calls only catch, the call of
\* resumeAudioPlayback has a then and a catch
PlaySettled(p, outcome) ==
  /\ p \in playPending
  /\ playPending' = playPending \ { p }
  /\ lastPlay' = [kind |-> p.kind, pc |-> p.pc, outcome |-> outcome]
  /\ IF outcome = "rejected" THEN Commit(setNeedsAudioResume(Session, TRUE))
     ELSE IF p.kind = "resume" THEN Commit(setNeedsAudioResume(Session, FALSE))
     ELSE Commit(Session)
  /\ UNCHANGED << clockVars, iceVars, negotiatorVars, backendVars, writeOutcomes,
                  candidateErrors, classifierVars, historyVars, tornDown,
                  connectVars, endVars >>

\* dataChannel.onopen: the channel opens and session.update is sent on it
DataChannelOpen(a) ==
  /\ Negotiated(a)
  /\ pcConnectionState[a] = "connected"
  /\ dcState[a] = "connecting"
  /\ Commit([Session EXCEPT !.dcState[a] = "open"])
  /\ sessionUpdates' = [sessionUpdates EXCEPT ![a] = @ + 1]
  /\ UNCHANGED << envVars, classifierVars, historyVars, tornDown, attempts, stage,
                  pcConnectionState, endVars >>

onclose(s) ==
  IF ~s.isEndingCallRef
  THEN toastError(setConnectionState(s, "error"),
                  "Realtime session closed unexpectedly")
  ELSE s

\* the remote side (or the transport) closes an open channel
DataChannelRemoteClose(a) ==
  /\ a \in pcOpen
  /\ dcState[a] = "open"
  /\ Commit(onclose([Session EXCEPT !.dcState[a] = "closed"]))
  /\ UNCHANGED << envVars, classifierVars, historyVars, tornDown, connectVars, endVars >>

\* the close event queued by dataChannel.close() is delivered
DataChannelCloseEvent(a) ==
  /\ a \in closeEvents
  /\ Commit(onclose([Session EXCEPT !.closeEvents = @ \ {a}]))
  /\ UNCHANGED << envVars, classifierVars, historyVars, tornDown, connectVars, endVars >>

\* ------------------------------------------------------------- controls
\* the Mute button is rendered in the connected view only
\* toggleMute muting by stopping the tracks instead of disabling them
toggleMute_StopsTracks(s) ==
  IF s.localStreamRef = NoRef THEN s
  ELSE setIsMuted([s EXCEPT !.trackEnabled[s.localStreamRef] = s.isMuted,
                            !.trackLive = @ \ {s.localStreamRef}],
                  ~s.isMuted)

toggleMute(s) ==
  IF s.localStreamRef = NoRef THEN s
  ELSE setIsMuted([s EXCEPT !.trackEnabled[s.localStreamRef] = s.isMuted],
                  ~s.isMuted)

ToggleMute ==
  /\ mounted
  /\ connectionState = "connected"
  /\ Commit(toggleMute(Session))
  /\ UNCHANGED << envVars, classifierVars, historyVars, tornDown, connectVars, endVars >>

\* ------------------------------------------------------------ call timer
\* the callback of setInterval: it fires when its period has passed
IntervalTick ==
  /\ mounted
  /\ intervalRef
  /\ now >= tickDue
  /\ Commit([Session EXCEPT
               !.callDuration = (now - startTimeRef) \div IntervalMs,
               !.tickDue = @ + IntervalMs])
  /\ UNCHANGED << envVars, classifierVars, historyVars, tornDown,
                  connectVars, endVars >>

\* time passes; a due interval callback runs first
ClockTick ==
  /\ now < MaxTicks * TickMs
  /\ ~(mounted /\ intervalRef /\ now >= tickDue)
  /\ ~(iceTimeoutId # NoTimer /\ now >= iceTimeoutId)
  /\ now' = now + TickMs
  /\ connectedMs' =
       IF mounted /\ connectionState = "connected"
       THEN connectedMs + TickMs ELSE connectedMs
  /\ UNCHANGED << iceVars, negotiatorVars, backendVars, writeOutcomes, mediaVars, classifierVars, historyVars, tornDown, sessionVars,
                  connectVars, endVars >>

\* ------------------------------------------- waitForIceGatheringComplete
IceTimeoutMs == 5000

IceWait ==
  [ iceGatheringState |-> iceGatheringState, iceListener |-> iceListener,
    iceTimeoutId |-> iceTimeoutId, iceWait |-> iceWait,
    iceResolves |-> iceResolves ]

\* resolve of the promise: the first call settles it
resolve(w) == [w EXCEPT !.iceResolves = @ + 1, !.iceWait = "resolved"]

\* already complete: a resolved promise; else a timer and a listener
waitForIceGatheringComplete(w, nowMs) ==
  IF w.iceGatheringState = "complete" THEN resolve(w)
  ELSE [w EXCEPT !.iceWait = "pending", !.iceTimeoutId = nowMs + IceTimeoutMs,
                 !.iceListener = TRUE]

\* onStateChange without clearTimeout
onStateChange_KeepsTimer(w) ==
  IF w.iceGatheringState = "complete"
  THEN resolve([w EXCEPT !.iceListener = FALSE])
  ELSE w

onStateChange(w) ==
  IF w.iceGatheringState = "complete"
  THEN resolve([w EXCEPT !.iceTimeoutId = NoTimer, !.iceListener = FALSE])
  ELSE w

\* the callback of window.setTimeout
onIceTimeout(w) == resolve([w EXCEPT !.iceTimeoutId = NoTimer, !.iceListener = FALSE])

CommitIce(w) ==
  /\ iceGatheringState' = w.iceGatheringState
  /\ iceListener' = w.iceListener
  /\ iceTimeoutId' = w.iceTimeoutId
  /\ iceWait' = w.iceWait
  /\ iceResolves' = w.iceResolves

GatheringSteps ==
  { <<"new", "gathering">>, <<"gathering", "complete">>,
    <<"complete", "gathering">> }

\* icegatheringstatechange on an open connection
IceGatheringStateChange(a, state) ==
  /\ a \in pcOpen
  /\ <<iceGatheringState, state>> \in GatheringSteps
  /\ LET w == [IceWait EXCEPT !.iceGatheringState = state]
     IN CommitIce(IF w.iceListener THEN onStateChange(w) ELSE w)
  /\ UNCHANGED << clockVars, negotiatorVars, backendVars, writeOutcomes, mediaVars, offersPosted, classifierVars, historyVars, tornDown,
                  sessionVars, connectVars, endVars >>

\* the 5-second timer fires
IceTimeout ==
  /\ iceTimeoutId # NoTimer
  /\ now >= iceTimeoutId
  /\ CommitIce(onIceTimeout(IceWait))
  /\ UNCHANGED << clockVars, negotiatorVars, backendVars, writeOutcomes, mediaVars, offersPosted, classifierVars, historyVars, tornDown,
                  sessionVars, connectVars, endVars >>

\* startRealtimeSession resumes after the wait: without a local SDP it
\* throws, else the offer is POSTed
IceWaitResumed(a, outcome) ==
  /\ stage[a] = "ice"
  /\ iceWait = "resolved"
  /\ IF outcome = "ok"
     THEN /\ offersPosted' = offersPosted + 1
          /\ stage' = [stage EXCEPT ![a] = "post"]
          /\ UNCHANGED sessionVars
     ELSE /\ Commit(ConnectCatch(Session))
          /\ stage' = [stage EXCEPT ![a] = "failed"]
          /\ UNCHANGED offersPosted
  /\ UNCHANGED << clockVars, negotiatorVars, backendVars, writeOutcomes, mediaVars, iceGatheringState, iceListener, iceTimeoutId, iceWait,
                  iceResolves, classifierVars, historyVars, tornDown, attempts,
                  pcConnectionState, sessionUpdates, endVars >>

\* ------------------------------------------------------------ endCallFlow
\* End Call is activated: teardown, then the endCall mutation is sent with
\* the duration of the current render
HandleEndCall ==
  /\ mounted
  /\ attempts > 0
  /\ flows < MaxEndCalls
  /\ Commit(stopRealtimeSession(Session))
  /\ tornDown' = tornDown \cup InFlight
  /\ flows' = flows + 1
  /\ endCallPending' = endCallPending + 1
  /\ endCallCalls' = Append(endCallCalls, callDuration)
  /\ UNCHANGED << envVars, classifierVars, historyVars, connectVars,
                  summaryCalls, onEndCallCount >>

\* the parent's onEndCall handler leaves the call view, which unmounts
\* CallInterface and runs its effect cleanups
onEndCall(s) ==
  IF s.mounted THEN [stopRealtimeSession(s) EXCEPT !.mounted = FALSE] ELSE s

\* the endCall mutation of one run settles: on success the summary is
\* requested and the parent is notified; on failure only a toast is shown
EndCallSettled(outcome) ==
  /\ endCallPending > 0
  /\ endCallPending' = endCallPending - 1
  /\ IF outcome = "ok"
     THEN /\ summaryCalls' = summaryCalls + 1
          /\ onEndCallCount' = onEndCallCount + 1
          /\ Commit(onEndCall(Session))
          /\ tornDown' = IF mounted THEN tornDown \cup InFlight ELSE tornDown
     ELSE /\ Commit(toastError(Session, "Failed to end call"))
          /\ UNCHANGED << summaryCalls, onEndCallCount, tornDown >>
  /\ UNCHANGED << envVars, classifierVars, historyVars, connectVars, flows,
                  endCallCalls >>

\* ------------------------------------------------------ dataChannel.onmessage
Classifier ==
  [ transcripts |-> transcripts, partialTranscript |-> partialTranscript,
    outputTranscriptRef |-> outputTranscriptRef,
    outputTranscriptResponseIdRef |-> outputTranscriptResponseIdRef,
    addTranscriptCalls |-> addTranscriptCalls ]

\* the kind of a delivered message: its type when it has one
KindOf(data) ==
  IF data.data # "object" THEN data.data
  ELSE IF ~IsString(data.type) THEN "untyped"
  ELSE data.type.s

\* a done event that carries no text of its own: no non-empty transcript
\* or text string, no content part with a text that is not blank
NoInlineText(m) ==
  IF KindOf(m) = AudioTranscriptDone
  THEN ~Truthy(m.transcript) /\ ~Truthy(m.text)
  ELSE \/ ~m.item.isRecord
       \/ \A i \in 1..Len(m.item.content) :
            LET part == m.item.content[i]
            IN ~part.isRecord \/ ~Truthy(part.text) \/ Trim(part.text.s) = <<>>

\* what the last delivered message was
ClassOf(data) ==
  IF data \in MalformedMsgs THEN "malformed"
  ELSE IF KindOf(data) \in {FutureEvent, AudioDelta} THEN "unknown"
  ELSE IF KindOf(data) \in {ItemDone, AudioTranscriptDone}
       THEN IF NoInlineText(data) THEN "emptydone" ELSE "done"
  ELSE "none"

\* the coalescing key of a delta event: the family, and for audio-transcript
\* deltas the response id
KeyOf(data) ==
  IF KindOf(data) = AudioTranscriptDelta
  THEN LET id == ResponseIdOf(data)
       IN <<AudioTranscriptDelta, IF Truthy(id) THEN id.s ELSE <<>> >>
  ELSE <<KindOf(data), <<>> >>

IsDelta(data) ==
  /\ KindOf(data) \in {TextDelta, InputDelta, AudioTranscriptDelta}
  /\ Truthy(data.delta)

\* the deltas delivered per key since the last done event of the family
RunAfter(run, data) ==
  IF IsDelta(data)
    THEN [run EXCEPT ![KeyOf(data)] = @ \o data.delta.s]
  ELSE IF KindOf(data) = AudioTranscriptDone
    THEN [k \in RunKeys |-> IF k[1] = AudioTranscriptDelta THEN <<>> ELSE run[k]]
  ELSE IF KindOf(data) = ItemDone
    THEN [k \in RunKeys |-> IF k[1] # AudioTranscriptDelta THEN <<>> ELSE run[k]]
  ELSE run

RECURSIVE SumLen(_, _)
SumLen(run, keys) ==
  IF keys = {} THEN 0
  ELSE LET k == CHOOSE x \in keys : TRUE
       IN Len(run[k]) + SumLen(run, keys \ {k})

\* the delta text the environment sends next
NextDelta == Str(<< Letters[SumLen(deltaRun, RunKeys) + 1] >>)

\* the bounded environment: what it may still send
Deliverable(data, r) ==
  /\ IsDelta(data) => SumLen(deltaRun, RunKeys) < MaxRun
  /\ Len(r.partialTranscript.text) <= MaxRun

\* a message arrives on attempt a's open channel
OnMessage(a, data) ==
  /\ a \in pcOpen
  /\ dcState[a] = "open"
  /\ Len(addTranscriptCalls) < MaxTranscripts
  /\ \E r \in {OnMessageResult(Classifier, data, now)} :
       /\ Deliverable(data, r)
       /\ transcripts' = IF mounted THEN r.transcripts ELSE transcripts
       /\ partialTranscript' =
            IF mounted THEN r.partialTranscript ELSE partialTranscript
       /\ outputTranscriptRef' = r.outputTranscriptRef
       /\ outputTranscriptResponseIdRef' = r.outputTranscriptResponseIdRef
       /\ addTranscriptCalls' = r.addTranscriptCalls
  /\ deltaRun' = RunAfter(deltaRun, data)
  /\ lastKind' = ClassOf(data)
  /\ UNCHANGED << envVars, tornDown, sessionVars, connectVars, endVars >>

\* addTranscript rejecting, with the entry put back out of the list
addTranscriptSettled_RollsBack(st, outcome) ==
  IF outcome = "rejected" /\ st.transcripts # <<>>
  THEN [st EXCEPT !.transcripts = SubSeq(@, 1, Len(@) - 1)]
  ELSE st

\* void addTranscript(...): the promise of the write has no handler, so
\* neither its result nor its rejection reaches the component
addTranscriptSettled(st, outcome) == st

\* the oldest addTranscript call still in flight settles
AddTranscriptSettled ==
  \E outcome \in { "stored", "rejected" } :
    /\ Len(writeOutcomes) < Len(addTranscriptCalls)
    /\ writeOutcomes' = Append(writeOutcomes, outcome)
    /\ \E r \in { addTranscriptSettled(Classifier, outcome) } :
         /\ transcripts' = IF mounted THEN r.transcripts ELSE transcripts
         /\ partialTranscript' =
              IF mounted THEN r.partialTranscript ELSE partialTranscript
         /\ outputTranscriptRef' = r.outputTranscriptRef
         /\ outputTranscriptResponseIdRef' = r.outputTranscriptResponseIdRef
         /\ addTranscriptCalls' = r.addTranscriptCalls
    /\ UNCHANGED << clockVars, iceVars, negotiatorVars, backendVars, mediaVars,
                    historyVars, tornDown, sessionVars, connectVars, endVars >>

\* every form of every message leads where a delivered message leads
DeliveredCoversMessages ==
  \A m \in MessagesWith({NextDelta}) :
    \E data \in DeliveredWith({NextDelta}) :
      /\ OnMessageResult(Classifier, m, now) = OnMessageResult(Classifier, data, now)
      /\ RunAfter(deltaRun, m) = RunAfter(deltaRun, data)
      /\ ClassOf(m) = ClassOf(data)

\* ---------------------------------------------------------- specifications
\* the session lifecycle: connect attempts, transport events, controls,
\* teardown and the end-call flow
Next ==
  \/ MountEffect
  \/ Unmount
  \/ \E a \in Attempts, o \in Outcomes : CredentialSettled(a, o)
  \/ \E a \in Attempts, o \in Outcomes : MicrophoneSettled(a, o)
  \/ \E a \in Attempts, o \in Outcomes : OfferSettled(a, o)
  \/ \E a \in Attempts, o \in Outcomes : IceWaitSettled(a, o)
  \/ \E a \in Attempts, o \in Outcomes : PostSettled(a, o)
  \/ \E a \in Attempts, o \in Outcomes : AnswerSettled(a, o)
  \/ \E a \in Attempts, st \in {"connected", "disconnected", "failed"} :
       ConnectionStateChange(a, st)
  \/ \E a \in Attempts : IceConnectionStateChange(a, "failed")
  \/ \E a \in Attempts : DataChannelOpen(a)
  \/ \E a \in Attempts : DataChannelRemoteClose(a)
  \/ \E a \in Attempts : DataChannelCloseEvent(a)
  \/ ToggleMute
  \/ HandleEndCall
  \/ \E o \in Outcomes : EndCallSettled(o)

Spec == Init /\ [][Next]_vars

\* The first attempt has run up to stage st with nothing else having
\* happened: it holds its stream, its connection and its data channel.
AttemptAt(st) ==
  /\ mounted = TRUE
  /\ connectionState = "connecting"
  /\ isMuted = FALSE
  /\ needsAudioResume = FALSE
  /\ callDuration = 0
  /\ transcripts = <<>>
  /\ partialTranscript = NoPartial
  /\ startTimeRef = 0
  /\ intervalRef = FALSE
  /\ tickDue = 0
  /\ hasStartedTimerRef = FALSE
  /\ isEndingCallRef = FALSE
  /\ peerConnectionRef = 1
  /\ dataChannelRef = 1
  /\ localStreamRef = 1
  /\ outputTranscriptRef = <<>>
  /\ outputTranscriptResponseIdRef = Absent
  /\ attempts = 1
  /\ stage = [a \in Attempts |-> IF a = 1 THEN st ELSE "none"]
  /\ trackLive = {1}
  /\ trackEnabled = [a \in Attempts |-> TRUE]
  /\ pcOpen = {1}
  /\ pcConnectionState = [a \in Attempts |-> "new"]
  /\ dcState = [a \in Attempts |-> IF a = 1 THEN "connecting" ELSE "none"]
  /\ closeEvents = {}
  /\ sessionUpdates = [a \in Attempts |-> 0]
  /\ flows = 0
  /\ endCallPending = 0
  /\ endCallCalls = <<>>
  /\ summaryCalls = 0
  /\ onEndCallCount = 0
  /\ addTranscriptCalls = <<>>
  /\ errorToasts = {}
  /\ deltaRun = [k \in RunKeys |-> <<>>]
  /\ lastKind = "none"
  /\ tornDown = {}

\* The call timer: the first attempt has been negotiated and its transport
\* is about to come up; the clock runs, the transport connects, drops and
\* recovers, and the call is ended.
InitTimer ==
  /\ now = 0
  /\ connectedMs = 0
  /\ IceIdle
  /\ NegotiatorIdle
  /\ BackendIdle
  /\ writeOutcomes = <<>>
  /\ MediaIdle
  /\ AttemptAt("done")

NextTimer ==
  \/ ClockTick
  \/ IntervalTick
  \/ \E a \in Attempts, st \in {"connected", "disconnected", "failed"} :
       ConnectionStateChange(a, st)
  \/ \E a \in Attempts : IceConnectionStateChange(a, "failed")
  \/ HandleEndCall
  \/ \E o \in Outcomes : EndCallSettled(o)

SpecTimer == InitTimer /\ [][NextTimer]_vars

\* The wait for ICE gathering: the first attempt has set its local
\* description and has just called waitForIceGatheringComplete; gathering
\* proceeds or stalls, the clock runs, and the call may be ended meanwhile.
InitIceWait ==
  /\ now = 0
  /\ connectedMs = 0
  /\ offersPosted = 0
  /\ NegotiatorIdle
  /\ BackendIdle
  /\ writeOutcomes = <<>>
  /\ MediaIdle
  /\ AttemptAt("ice")
  /\ \E g \in {"new", "gathering", "complete"} :
       LET w == waitForIceGatheringComplete(
                  [ iceGatheringState |-> g, iceListener |-> FALSE,
                    iceTimeoutId |-> NoTimer, iceWait |-> "none",
                    iceResolves |-> 0 ], 0)
       IN /\ iceGatheringState = w.iceGatheringState
          /\ iceListener = w.iceListener
          /\ iceTimeoutId = w.iceTimeoutId
          /\ iceWait = w.iceWait
          /\ iceResolves = w.iceResolves

NextIceWait ==
  \/ ClockTick
  \/ \E a \in Attempts, g \in {"gathering", "complete"} :
       IceGatheringStateChange(a, g)
  \/ IceTimeout
  \/ \E a \in Attempts, o \in Outcomes : IceWaitResumed(a, o)
  \/ HandleEndCall
  \/ \E o \in Outcomes : EndCallSettled(o)

\* Time passes, a due timer fires and a settled promise resumes its awaiter.
SpecIceWait ==
  /\ InitIceWait
  /\ [][NextIceWait]_vars
  /\ WF_vars(ClockTick)
  /\ WF_vars(IceTimeout)
  /\ WF_vars(\E a \in Attempts, o \in Outcomes : IceWaitResumed(a, o))

\* The Session Negotiator: one call of the createRealtimeSession action for
\* every identity, configuration and answer of the credential endpoint.
InitNegotiator ==
  /\ now = 0
  /\ connectedMs = 0
  /\ IceIdle
  /\ credentialCall \in CredentialCalls
  /\ createResult = Pending
  /\ BackendIdle
  /\ writeOutcomes = <<>>
  /\ MediaIdle
  /\ Unstarted

NextNegotiator == CreateRealtimeSession

SpecNegotiator == InitNegotiator /\ [][NextNegotiator]_vars

\* The backend: the public functions of convex/ called in any order, by
\* any caller, on tables that start empty.
InitBackend ==
  /\ now = 0
  /\ connectedMs = 0
  /\ IceIdle
  /\ NegotiatorIdle
  /\ BackendIdle
  /\ writeOutcomes = <<>>
  /\ MediaIdle
  /\ Unstarted

NextBackend ==
  \/ StartCall
  \/ EndCall
  \/ GetCall
  \/ AddTranscript
  \/ GetTranscripts
  \/ SearchTranscripts
  \/ GenerateCallSummary

SpecBackend == InitBackend /\ [][NextBackend]_vars

\* the event classifier on the open channel of a connected session
InitClassifier ==
  /\ now = 0
  /\ connectedMs = 0
  /\ IceIdle
  /\ NegotiatorIdle
  /\ BackendIdle
  /\ writeOutcomes = <<>>
  /\ MediaIdle
  /\ mounted = TRUE
  /\ connectionState = "connected"
  /\ isMuted = FALSE
  /\ needsAudioResume = FALSE
  /\ callDuration = 0
  /\ transcripts = <<>>
  /\ partialTranscript = NoPartial
  /\ startTimeRef = 0
  /\ intervalRef = TRUE
  /\ tickDue = IntervalMs
  /\ hasStartedTimerRef = TRUE
  /\ isEndingCallRef = FALSE
  /\ peerConnectionRef = 1
  /\ dataChannelRef = 1
  /\ localStreamRef = 1
  /\ outputTranscriptRef = <<>>
  /\ outputTranscriptResponseIdRef = Absent
  /\ attempts = 1
  /\ stage = [a \in Attempts |-> IF a = 1 THEN "done" ELSE "none"]
  /\ trackLive = {1}
  /\ trackEnabled = [a \in Attempts |-> TRUE]
  /\ pcOpen = {1}
  /\ pcConnectionState = [a \in Attempts |-> IF a = 1 THEN "connected" ELSE "new"]
  /\ dcState = [a \in Attempts |-> IF a = 1 THEN "open" ELSE "none"]
  /\ closeEvents = {}
  /\ sessionUpdates = [a \in Attempts |-> IF a = 1 THEN 1 ELSE 0]
  /\ flows = 0
  /\ endCallPending = 0
  /\ endCallCalls = <<>>
  /\ summaryCalls = 0
  /\ onEndCallCount = 0
  /\ addTranscriptCalls = <<>>
  /\ errorToasts = {}
  /\ deltaRun = [k \in RunKeys |-> <<>>]
  /\ lastKind = "none"
  /\ tornDown = {}

NextClassifier ==
  \E a \in Attempts, data \in DeliveredWith({NextDelta}) : OnMessage(a, data)

SpecClassifier == InitClassifier /\ [][NextClassifier]_vars

\* Signaling and transport of one attempt from the ICE wait on: the
\* remaining steps settle, candidates fail, the transport connects, drops
\* and fails, and the call is ended.
InitTransport ==
  /\ now = 0
  /\ connectedMs = 0
  /\ IceIdle
  /\ NegotiatorIdle
  /\ BackendIdle
  /\ writeOutcomes = <<>>
  /\ MediaIdle
  /\ AttemptAt("ice")

NextTransport ==
  \/ \E a \in Attempts, o \in Outcomes : IceWaitSettled(a, o)
  \/ \E a \in Attempts, o \in Outcomes : PostSettled(a, o)
  \/ \E a \in Attempts, o \in Outcomes : AnswerSettled(a, o)
  \/ \E a \in Attempts : IceCandidateError(a)
  \/ \E a \in Attempts, st \in {"connected", "disconnected", "failed"} :
       ConnectionStateChange(a, st)
  \/ \E a \in Attempts : IceConnectionStateChange(a, "failed")
  \/ \E a \in Attempts : DataChannelOpen(a)
  \/ HandleEndCall
  \/ \E o \in Outcomes : EndCallSettled(o)

SpecTransport == InitTransport /\ [][NextTransport]_vars

\* Playback of the remote audio of a connected session: tracks arrive,
\* play() settles either way, the user resumes playback and ends the call.
NextPlayback ==
  \/ \E a \in Attempts : OnTrack(a)
  \/ ResumeAudioPlayback
  \/ \E p \in playPending, o \in { "resolved", "rejected" } : PlaySettled(p, o)
  \/ HandleEndCall
  \/ \E o \in Outcomes : EndCallSettled(o)

SpecPlayback == InitClassifier /\ [][NextPlayback]_vars

\* the messages that issue a write and the deltas between them, together
\* with the settling of the writes
NextPersist ==
  \/ \E a \in Attempts,
        data \in WriteEvents \cup
                 { [BaseMsg EXCEPT !.type = TypeStr(t), !.delta = NextDelta] :
                     t \in { TextDelta, InputDelta } } \cup
                 { WithId([BaseMsg EXCEPT !.type = TypeStr(AudioTranscriptDelta),
                                          !.delta = NextDelta], f) :
                     f \in PlainIdForms } \cup
                 { [BaseMsg EXCEPT !.data = "garbage"] } : OnMessage(a, data)
  \/ AddTranscriptSettled

SpecPersist == InitClassifier /\ [][NextPersist]_vars

\* ------------------------------------------------------------------ claims
\* C1: teardown is idempotent and safe from any state.  From every
\* reachable state stopRealtimeSession leaves the connection state idle (a
\* mounted component), holds no local stream, no peer connection and no data
\* channel, has stopped the tracks of the stream, closed the connection and
\* closed the channel it held, and a second call right after the first
\* changes nothing.
C1_TeardownIdempotentSafe ==
  LET once == stopRealtimeSession(Session)
      twice == stopRealtimeSession(once)
  IN /\ twice = once
     /\ once.mounted => once.connectionState = "idle"
     /\ once.localStreamRef = NoRef
     /\ once.peerConnectionRef = NoRef
     /\ once.dataChannelRef = NoRef
     /\ once.trackLive = trackLive \ {localStreamRef}
     /\ once.pcOpen = pcOpen \ {peerConnectionRef}
     /\ dataChannelRef # NoRef =>
          once.dcState[dataChannelRef] \notin {"connecting", "open"}
     /\ ~once.isEndingCallRef /\ ~once.intervalRef /\ ~once.isMuted

\* End Call was activated twice on a session that had been negotiated:
\* the second teardown found nothing to release
C1_Witness ==
  /\ mounted
  /\ flows >= 2
  /\ stage[1] = "done"
  /\ connectionState = "idle"
  /\ localStreamRef = NoRef /\ peerConnectionRef = NoRef /\ dataChannelRef = NoRef
  /\ trackLive = {} /\ pcOpen = {}

\* C2: a teardown invoked while a connect attempt is in flight is final.
\* Once the continuation of such an attempt has run to its end, the stream,
\* the connection and the channel of that attempt are released and not
\* held, and when every attempt was torn down the state is neither
\* connecting nor connected.
C2_TeardownNotResurrected ==
  \A a \in tornDown :
    stage[a] \in {"done", "failed"} =>
      /\ a \notin trackLive
      /\ a \notin pcOpen
      /\ dcState[a] \notin {"connecting", "open"}
      /\ localStreamRef # a /\ peerConnectionRef # a /\ dataChannelRef # a
      /\ tornDown = 1..attempts =>
           connectionState \notin {"connecting", "connected"}

\* C3: a failure during connect runs teardown before the error is shown.
\* Whenever an attempt fails, in the state that shows the error no local
\* media track is live, no peer connection is open and none of the three
\* refs is held.
C3_FailureReleasesEverything ==
  [][ \A a \in Attempts :
        (stage[a] # "failed" /\ stage'[a] = "failed") =>
          /\ trackLive' = {}
          /\ pcOpen' = {}
          /\ localStreamRef' = NoRef
          /\ peerConnectionRef' = NoRef
          /\ dataChannelRef' = NoRef ]_vars

\* C10: ending a call more than once does not double-persist.  At most one
\* endCall duration write and at most one generateSummary request are
\* issued, and onEndCall is notified at most once.
C10_EndCallPersistsOnce ==
  /\ Len(endCallCalls) <= 1
  /\ summaryCalls <= 1
  /\ onEndCallCount <= 1

\* C11: endCall tears down all media and issues exactly one duration
\* write, and the duration it carries is the elapsed connected time in
\* whole seconds: it is never more than the time spent in connected, hence
\* 0 when connected was never reached.
C11_EndCallPersistsConnectedTime ==
  [][ flows' = flows + 1 =>
        /\ trackLive' = {} /\ pcOpen' = {}
        /\ localStreamRef' = NoRef
        /\ peerConnectionRef' = NoRef
        /\ dataChannelRef' = NoRef
        /\ Len(endCallCalls') = Len(endCallCalls) + 1
        /\ endCallCalls'[Len(endCallCalls')] <= connectedMs \div IntervalMs ]_vars

\* C12: when the duration write of endCall fails, the error notification is
\* shown and the call view still exits: once no write is pending, a failed
\* write has been followed by the notification of the UI layer.
C12_FailedWriteStillExits ==
  ("Failed to end call" \in errorToasts /\ endCallPending = 0)
    => onEndCallCount > 0

\* C13: endCall runs in a fixed order: teardown, then the duration write,
\* then the summary request, then the notification of the UI layer; no
\* write and no summary request is issued while a microphone track is live
\* or a peer connection is open, and the UI layer is notified only together
\* with a summary request that follows a write.
C13_EndCallOrder ==
  [][ /\ Len(endCallCalls') > Len(endCallCalls)
           => trackLive' = {} /\ pcOpen' = {}
      /\ summaryCalls' > summaryCalls
           => /\ trackLive = {} /\ pcOpen = {}
              /\ summaryCalls' <= Len(endCallCalls)
      /\ onEndCallCount' - onEndCallCount = summaryCalls' - summaryCalls ]_vars

\* C14: a data-channel close that is part of an intentional teardown is
\* silent: the delivery of the close event of a channel that
\* stopRealtimeSession closed never sets the connection state to error and
\* never raises the "closed unexpectedly" notification.
C14_TeardownCloseSilent ==
  [][ closeEvents' # closeEvents /\ closeEvents' \subseteq closeEvents
        => /\ connectionState' = connectionState
           /\ errorToasts' = errorToasts ]_vars

\* C15: the connection state moves only along idle -> connecting,
\* connecting -> connected, connecting -> error, connected -> error and
\* any -> idle; in particular it never goes from error back to connected.
C15_StateMachineEdges ==
  [][ connectionState' # connectionState
        => \/ connectionState' = "idle"
           \/ << connectionState, connectionState' >> \in
                { << "idle", "connecting" >>, << "connecting", "connected" >>,
                  << "connecting", "error" >>, << "connected", "error" >> } ]_vars

\* C16: the call timer starts only when connected is first reached and
\* pauses without resetting when the state leaves connected: the duration
\* is 0 before connected is reached and never counts time that was spent
\* outside connected.
C16_TimerCountsConnectedTime ==
  /\ connectedMs = 0 => callDuration = 0
  /\ callDuration * IntervalMs <= connectedMs

\* C17: the wait for ICE gathering always terminates, on whichever comes
\* first of gathering reaching complete or the 5-second timer: it is never
\* pending after the timer's time, resolve is called exactly once and the
\* losing trigger is disarmed, and the offer is POSTed at most once and only
\* after the wait resolved; the attempt eventually POSTs its offer (or
\* fails for the missing local SDP) even when gathering never completes.
C17_IceWaitTerminatesOnce ==
  /\ [](/\ iceResolves <= 1
        /\ iceWait = "pending" => now <= IceTimeoutMs
        /\ iceWait = "resolved" => iceTimeoutId = NoTimer /\ ~iceListener
        /\ offersPosted <= iceResolves)
  /\ <>(/\ iceWait = "resolved" /\ iceResolves = 1
        /\ offersPosted = 1 \/ stage[1] = "failed")

\* gathering never completed, the timer fired and the offer was POSTed
C17_Witness ==
  /\ iceGatheringState # "complete"
  /\ now >= IceTimeoutMs
  /\ iceResolves = 1
  /\ offersPosted = 1

\* C18: mute does not renegotiate: a step that toggles the muted indicator
\* of a held stream flips it, sets the enabled flag of that stream's tracks
\* to its opposite and changes nothing else: no connect stage advances, no
\* offer is POSTed, and connection state, connections, data channels,
\* transcripts and the timer stay as they are.
C18_MuteOnlyTogglesTracks ==
  [][ (isMuted' # isMuted /\ localStreamRef # NoRef /\ localStreamRef' = localStreamRef)
        => /\ trackEnabled' = [trackEnabled EXCEPT ![localStreamRef] = ~isMuted']
           /\ UNCHANGED << envVars, classifierVars, historyVars, connectVars, endVars,
                           mounted, connectionState, needsAudioResume, callDuration,
                           startTimeRef, intervalRef, tickDue, hasStartedTimerRef,
                           isEndingCallRef, peerConnectionRef, dataChannelRef,
                           trackLive, pcOpen, dcState, closeEvents, errorToasts >> ]_vars

\* the call is connected and muted: the tracks of the held stream are disabled
C18_Witness ==
  /\ connectionState = "connected"
  /\ localStreamRef # NoRef
  /\ isMuted
  /\ ~trackEnabled[localStreamRef]
  /\ localStreamRef \in trackLive

\* ---------------------------------------------- claims on the classifier
AudioKeys == { k \in RunKeys : k[1] = AudioTranscriptDelta }
NoIdKey == << AudioTranscriptDelta, <<>> >>

\* since the last done event, deltas arrived under key k and under no other
OnlyRun(k) ==
  /\ deltaRun[k] # <<>>
  /\ \A j \in RunKeys \ {k} : deltaRun[j] = <<>>

\* the done events that close key k: the audio-transcript done events with
\* the response id of k, the item done events for the text families
DoneFor(k) ==
  IF k[1] = AudioTranscriptDelta
  THEN { d \in AudioTranscriptDoneMsgs :
           LET id == ResponseIdOf(d)
           IN (IF Truthy(id) THEN id.s ELSE <<>>) = k[2] }
  ELSE { d \in ItemMsgs : d.type.s = ItemDone }

\* the audio-transcript done events without a transcript or text string
BareAudioDoneMsgs ==
  { d \in AudioTranscriptDoneMsgs : ~IsString(d.transcript) /\ ~IsString(d.text) }

\* the done events that carry no text of their own
EmptyDoneMsgs == { d \in DoneMsgs : NoInlineText(d) }

\* what may follow a malformed message: done events with and without text
\* of their own, and a delta
FollowUps(delta) ==
  { [BaseMsg EXCEPT !.type = TypeStr(AudioTranscriptDone)],
    [BaseMsg EXCEPT !.type = TypeStr(ItemDone), !.item = Item(<< TextPart >>, 1)],
    [BaseMsg EXCEPT !.type = TypeStr(AudioTranscriptDelta), !.delta = delta,
                    !.response_id = Str(IdB)],
    [BaseMsg EXCEPT !.type = TypeStr(TextDelta), !.delta = delta] }

\* the entries a handler result r adds to the transcript list
EntriesAdded(r) == SubSeq(r.transcripts, Len(transcripts) + 1, Len(r.transcripts))

RangeOf(seq) == { seq[i] : i \in 1..Len(seq) }

FinalizeEmitsOnlyCurrent ==
  Truthy(outputTranscriptResponseIdRef) =>
    \A d \in BareAudioDoneMsgs :
      LET own == << AudioTranscriptDelta, outputTranscriptResponseIdRef.s >>
      IN \A added \in { EntriesAdded(OnMessageResult(Classifier, d, now)) } :
         \A i \in 1..Len(added) :
           RangeOf(added[i].originalText) \subseteq
             RangeOf(deltaRun[own]) \cup RangeOf(deltaRun[NoIdKey])

\* C5 as stated: deltas for response id A and then for response id B keep
\* two independent buffers (a further delta for either id continues the
\* text accumulated for that id), and finalizing B does not emit A's part.
C5_IndependentBuffers ==
  /\ \A id \in {IdA, IdB} :
       deltaRun[NoIdKey] = <<>> =>
         LET m == [BaseMsg EXCEPT !.type = TypeStr(AudioTranscriptDelta),
                                  !.delta = NextDelta,
                                  !.response_id = Str(id)]
             r == OnMessageResult(Classifier, m, now)
         IN r.outputTranscriptRef =
              deltaRun[<< AudioTranscriptDelta, id >>] \o NextDelta.s
  /\ FinalizeEmitsOnlyCurrent

\* C5 (amended): a delta whose response id differs from the accumulating
\* one starts the single buffer anew: what was accumulated is discarded,
\* the buffer and the partial transcript hold the new delta only, and
\* finalizing does not emit what was delivered under another response id.
C5_KeyChangeRestartsBuffer ==
  /\ \A m \in AudioTranscriptDeltaMsgs({NextDelta}) :
       LET id == ResponseIdOf(m)
       IN ( /\ Truthy(m.delta)
            /\ Truthy(id)
            /\ Truthy(outputTranscriptResponseIdRef)
            /\ id # outputTranscriptResponseIdRef ) =>
            \A r \in { OnMessageResult(Classifier, m, now) } :
              /\ r.outputTranscriptRef = m.delta.s
              /\ r.outputTranscriptResponseIdRef = id
              /\ r.partialTranscript = Partial(m.delta.s, now)
              /\ r.transcripts = transcripts
  /\ FinalizeEmitsOnlyCurrent

\* a delta for A was followed by a delta for B: the buffer holds B's only
C5_Witness ==
  /\ deltaRun[<< AudioTranscriptDelta, IdA >>] = << "a" >>
  /\ deltaRun[<< AudioTranscriptDelta, IdB >>] = << "b" >>
  /\ outputTranscriptResponseIdRef = Str(IdB)
  /\ outputTranscriptRef = << "b" >>
  /\ partialTranscript.text = << "b" >>

\* C6: a partial is finalized only by a done event for its own key.  A
\* response.output_audio_transcript.done whose response id differs from
\* the accumulating one and which carries no inline text creates no entry
\* and no persistence call.
C6_DoneOnlyForSameKey ==
  \A d \in EmptyDoneMsgs \cap AudioTranscriptDoneMsgs :
    LET id == ResponseIdOf(d)
        r == OnMessageResult(Classifier, d, now)
    IN ( /\ Truthy(id)
         /\ Truthy(outputTranscriptResponseIdRef)
         /\ id # outputTranscriptResponseIdRef ) =>
           /\ r.transcripts = transcripts
           /\ r.addTranscriptCalls = addTranscriptCalls

\* C7: an empty done is a no-op.  A done event without inline text that
\* arrives while nothing is accumulated creates no entry, issues no
\* addTranscript call and leaves the transcript list unchanged.
C7_EmptyDoneNoEntry ==
  outputTranscriptRef = <<>> =>
    \A d \in EmptyDoneMsgs :
      \A r \in { OnMessageResult(Classifier, d, now) } :
         /\ r.transcripts = transcripts
         /\ r.addTranscriptCalls = addTranscriptCalls

\* an empty done event was delivered to a session without accumulated text
C7_Witness ==
  /\ lastKind = "emptydone"
  /\ transcripts = <<>>
  /\ addTranscriptCalls = <<>>
  /\ ~partialTranscript.present
  /\ outputTranscriptRef = <<>>

\* C8: unknown event types are ignored.  A well-formed message of a type
\* the handler does not act on, response.output_audio.delta included,
\* changes neither the transcript list, the partial transcript nor the
\* accumulation buffer and issues no persistence call.
C8_UnknownTypeIgnored ==
  \A m \in UnknownMsgs :
    /\ parseRealtimeMessage(m).ok
    /\ OnMessageResult(Classifier, m, now) = Classifier

\* an unknown event was delivered while a partial was accumulating
C8_Witness ==
  /\ lastKind = "unknown"
  /\ partialTranscript.present
  /\ outputTranscriptRef # <<>>
  /\ connectionState = "connected"

\* C9: a malformed message is discarded without changing any state, and
\* the done event or delta that follows it is processed exactly as if the
\* malformed message had not arrived.
C9_MalformedDiscarded ==
  \A r \in { OnMessageResult(Classifier, bad, now) : bad \in MalformedMsgs } :
     /\ r = Classifier
     /\ \A m \in FollowUps(NextDelta) :
          OnMessageResult(r, m, now) = OnMessageResult(Classifier, m, now)

\* a malformed message was delivered while a partial was accumulating
C9_Witness ==
  /\ lastKind = "malformed"
  /\ partialTranscript.present
  /\ outputTranscriptRef # <<>>

\* C19: finalized entries are appended in the order their done events
\* arrive.  Whatever message is delivered next, the transcript list keeps its
\* entries unchanged and in place and grows by at most one entry at the
\* end, and the addTranscript calls grow by exactly the appended entry;
\* every entry of the list has its one call, with the same text, at the
\* same position.
C19_AppendOnlyInArrivalOrder ==
  /\ addTranscriptCalls = transcripts
  /\ \A m \in DeliveredWith({NextDelta}) :
       \A r \in { OnMessageResult(Classifier, m, now) } :
         \A added \in { EntriesAdded(r) } :
           /\ Len(added) <= 1
           /\ r.transcripts = transcripts \o added
           /\ r.addTranscriptCalls = addTranscriptCalls \o added

\* an entry is in the list and a done event would append a second one
C19_Witness ==
  /\ Len(transcripts) = 1
  /\ lastKind = "done"
  /\ \E m \in DoneMsgs :
       Len(OnMessageResult(Classifier, m, now).transcripts) = 2

\* ----------------------------------------- claims on the session negotiator
\* the values at the three places where the handler looks for the secret
SecretPlaces(body) ==
  { getNestedValue(getNestedValue(body, "client_secret"), "value"),
    getNestedValue(body, "value"),
    getNestedValue(body, "client_secret") }

\* the non-empty strings among them
SecretsFound(body) ==
  { v.s : v \in { u \in SecretPlaces(body) : u.k = "str" /\ u.s # <<>> } }

\* C20: the negotiator returns a descriptor only when the credential
\* endpoint answered with a success status and a non-empty string is at
\* client_secret.value, value or client_secret; the descriptor's
\* clientSecret is one of these strings and its session is the
\* configuration that was sent.  A non-success status throws the error that
\* carries the status and the body; a success without a secret throws a
\* malformed-response error.
C20_DescriptorOnlyWithSecret ==
  createResult # Pending =>
    LET call == credentialCall
        response == call.response
        r == createResult
    IN /\ r.outcome \in {"returned", "thrown"}
       /\ r.outcome = "returned" =>
            /\ response.kind = "response"
            /\ response.status \in 200..299
            /\ r.clientSecret.k = "str"
            /\ r.clientSecret.s # <<>>
            /\ r.clientSecret.s \in SecretsFound(response.body)
            /\ r.session = SessionConfig(call.args)
            /\ r.session.audio.output.voice \in {call.args.voice, "marin"}
       /\ (call.identity /\ call.apiKey /\ response.kind = "response") =>
            /\ response.status \notin 200..299 =>
                 r = Thrown("Failed to create realtime session", response.status,
                            response.body)
            /\ (response.status \in 200..299 /\ SecretsFound(response.body) = {}) =>
                 /\ r.outcome = "thrown"
                 /\ r.message \in {"Missing client secret in response", "SyntaxError"}

\* a descriptor was returned whose secret was found under `value`, with
\* the voice that was asked for
C20_Witness ==
  /\ createResult # Pending
  /\ createResult.outcome = "returned"
  /\ createResult.clientSecret = Str(SecretFlat)
  /\ createResult.session.audio.output.voice = "alloy"

\* C22: an item-added event seeds the partial transcript only when no
\* delta-based transcript is accumulating: while deltas have accumulated a
\* partial transcript, a conversation.item.added leaves it as it is.
C22_ItemAddedKeepsAccumulating ==
  (partialTranscript.present /\ \E k \in RunKeys : deltaRun[k] # <<>>) =>
    \A m \in { i \in ItemMsgs : i.type.s = ItemAdded } :
      OnMessageResult(Classifier, m, now).partialTranscript = partialTranscript

\* C28: on response.output_audio_transcript.done the finalized text is the
\* inline transcript if it is a string, else the inline text if it is a
\* string, else the text accumulated from deltas; an entry with that text
\* is appended when it is not empty, and the accumulation buffer and the
\* tracked response id are reset whether or not an entry was created.
C28_AudioDoneTextAndReset ==
  \A d \in AudioTranscriptDoneMsgs :
    \A r \in { OnMessageResult(Classifier, d, now) } :
      /\ r.outputTranscriptRef = <<>>
      /\ r.outputTranscriptResponseIdRef = Absent
      /\ IsString(d.transcript) =>
           r.transcripts = IF d.transcript.s = <<>> THEN transcripts
                           ELSE Append(transcripts, Entry(d.transcript.s, now))
      /\ (~IsString(d.transcript) /\ IsString(d.text)) =>
           r.transcripts = IF d.text.s = <<>> THEN transcripts
                           ELSE Append(transcripts, Entry(d.text.s, now))
      /\ (~IsString(d.transcript) /\ ~IsString(d.text)) =>
           r.transcripts = IF outputTranscriptRef = <<>> THEN transcripts
                           ELSE Append(transcripts, Entry(outputTranscriptRef, now))

\* a done event with an inline transcript was finalized: the entry holds
\* the inline text and the buffer and the response id are reset
C28_Witness ==
  /\ lastKind = "done"
  /\ Len(transcripts) = 1
  /\ transcripts[1].originalText = <<"b">>
  /\ outputTranscriptRef = <<>>
  /\ outputTranscriptResponseIdRef = Absent


\* C21: for every call record, endedAt is set exactly once and duration
\* only on the transition to completed: whatever startCall and endCall
\* mutations run, no step changes the endedAt or the duration of a call
\* whose status is already "completed".
C21_CompletedCallNeverOverwritten ==
  [][ \A c \in 1..Len(callsTable) :
        callsTable[c].status = "completed" =>
          /\ callsTable'[c].endedAt = callsTable[c].endedAt
          /\ callsTable'[c].duration = callsTable[c].duration ]_vars

Owns(caller, callId) ==
  caller # NoUser /\ Exists(callId) /\ callsTable[callId].userId = caller

\* C23: the entry of a conversation.item.done event is stamped with
\* item.created_at in milliseconds when the event carries one and with the
\* wall clock otherwise, and once the owner's addTranscript call for an
\* entry has run, the transcripts table holds a document of that call with
\* the entry's text and the entry's timestamp.
C23_PersistedEntryMatchesMemory ==
  /\ \A m \in { d \in ItemMsgs : d.type.s = ItemDone /\ ItemText(d.item) # <<>> } :
       \A r \in { OnMessageResult(Classifier, m, now) } :
         r.transcripts =
           Append(transcripts,
                  Entry(ItemText(m.item),
                        IF m.item.created_at >= 0 THEN m.item.created_at * 1000
                        ELSE now))
  /\ (lastOp.op = "addTranscript" /\ Owns(lastOp.caller, lastOp.callId)) =>
       \E i \in 1..Len(transcriptsTable) :
         /\ transcriptsTable[i].callId = lastOp.callId
         /\ transcriptsTable[i].originalText = lastOp.args.originalText
         /\ transcriptsTable[i].timestamp = lastOp.args.timestamp

\* C29: endCall, getCall, addTranscript, getTranscripts, searchTranscripts
\* and generateCallSummary act only for the authenticated owner of the call:
\* called by anyone else, the function leaves both tables as they were,
\* returns nothing read from them and sends no transcript text anywhere.
C29_OnlyOwnerActs ==
  [][ ( /\ lastOp'.op \in { "endCall", "getCall", "addTranscript", "getTranscripts",
                           "searchTranscripts", "generateCallSummary" }
        /\ ~Owns(lastOp'.caller, lastOp'.callId) ) =>
        /\ callsTable' = callsTable
        /\ transcriptsTable' = transcriptsTable
        /\ lastOp'.val = <<>>
        /\ lastOp'.sent = <<>> ]_vars


\* C25: a rejected addTranscript write is not fatal: the step in which it
\* settles leaves the transcript list, the partial transcript, the buffers
\* and the connection state as they were and shows no error, and after it
\* every done event that carries text is still appended to the list and
\* issues its own write.
C25_RejectedWriteNonFatal ==
  /\ [][ ( /\ writeOutcomes' # writeOutcomes
           /\ writeOutcomes'[Len(writeOutcomes')] = "rejected" ) =>
          /\ transcripts' = transcripts
          /\ partialTranscript' = partialTranscript
          /\ outputTranscriptRef' = outputTranscriptRef
          /\ outputTranscriptResponseIdRef' = outputTranscriptResponseIdRef
          /\ connectionState' = connectionState
          /\ errorToasts' = errorToasts ]_vars
  /\ [] ( (\E i \in 1..Len(writeOutcomes) : writeOutcomes[i] = "rejected") =>
           /\ \A i \in 1..Len(writeOutcomes) :
                i <= Len(transcripts) /\ transcripts[i] = addTranscriptCalls[i]
           /\ \A m \in WriteEvents :
                \A r \in { OnMessageResult(Classifier, m, now) } :
                  /\ Len(r.transcripts) = Len(transcripts) + 1
                  /\ SubSeq(r.transcripts, 1, Len(transcripts)) = transcripts
                  /\ r.addTranscriptCalls =
                       Append(addTranscriptCalls, r.transcripts[Len(r.transcripts)]) )

C25_Witness ==
  /\ writeOutcomes = << "rejected" >>
  /\ Len(transcripts) = 1
  /\ addTranscriptCalls = transcripts
  /\ connectionState = "connected"


\* C24: per connection attempt exactly one session.update is written to
\* the data channel and only once the channel has opened: a channel that
\* is open has had its one message, a channel that never opened has had
\* none, and no message is sent for an attempt that failed or was torn
\* down before its channel opened.
C24_OneSessionUpdateAfterOpen ==
  \A a \in Attempts :
    /\ sessionUpdates[a] <= 1
    /\ dcState[a] = "open" => sessionUpdates[a] = 1
    /\ dcState[a] \in {"none", "connecting"} => sessionUpdates[a] = 0
    /\ (a \in tornDown \/ stage[a] = "failed") => sessionUpdates[a] = 0


\* C26: an icecandidateerror event is recorded and nothing else: it
\* changes neither the connection state nor a held resource and shows no
\* error; while the view is mounted, the transport reporting failed or
\* disconnected, or ICE reporting failed, puts the connection state to
\* error, and none of these events starts a connect attempt.
C26_CandidateErrorsNotFatal ==
  /\ [][ candidateErrors' # candidateErrors =>
          /\ connectionState' = connectionState
          /\ errorToasts' = errorToasts
          /\ UNCHANGED << peerConnectionRef, dataChannelRef, localStreamRef, pcOpen,
                          dcState, trackLive, trackEnabled, attempts, stage >> ]_vars
  /\ [][ \A a \in Attempts :
            ( /\ pcConnectionState'[a] # pcConnectionState[a]
              /\ pcConnectionState'[a] \in {"failed", "disconnected", "icefailed"} ) =>
              /\ mounted => connectionState' = "error"
              /\ attempts' = attempts
              /\ stage' = stage ]_vars

C26_Witness ==
  /\ candidateErrors > 0
  /\ connectionState = "connected"
  /\ pcOpen = {1}

\* C27: the needs-resume flag becomes true when a call of play() is
\* rejected; a call made by resumeAudioPlayback clears the flag when it
\* succeeds and leaves it set when it fails, and an automatic call that
\* succeeds does not touch it; teardown clears the flag, and a rejection
\* that arrives after the session of its call was torn down does not set
\* the flag again.
C27_ResumeFlagFollowsPlayback ==
  /\ [][ \A p \in playPending :
            (mounted /\ playPending' = playPending \ { p }) =>
              /\ (lastPlay'.outcome = "rejected" /\ p.pc \in pcOpen) => needsAudioResume'
              /\ (lastPlay'.outcome = "rejected" /\ p.pc \notin pcOpen) =>
                   needsAudioResume' = needsAudioResume
              /\ (lastPlay'.outcome = "resolved" /\ p.kind = "resume") =>
                   ~needsAudioResume'
              /\ (lastPlay'.outcome = "resolved" /\ p.kind = "auto") =>
                   needsAudioResume' = needsAudioResume ]_vars
  /\ [][ (mounted /\ peerConnectionRef # NoRef /\ peerConnectionRef' = NoRef) =>
          ~needsAudioResume' ]_vars


\* C30: while the view is mounted and a microphone stream is held, the
\* muted indicator is true exactly when the tracks of that stream are
\* disabled; while no stream is held (before the first one is acquired and
\* after every teardown) the indicator is unmuted and toggleMute changes
\* nothing.
C30_MutedIndicatorAgreesWithTracks ==
  /\ (mounted /\ localStreamRef # NoRef) =>
       (isMuted <=> ~trackEnabled[localStreamRef])
  /\ (mounted /\ localStreamRef = NoRef) =>
       (~isMuted /\ toggleMute(Session) = Session)

====
